---------------------------- MODULE Spec2Model ----------------------------
(***************************************************************************)
(* Model of the hybrid chat router of the ai-chatbot front end:            *)
(*   HybridChatService.sendMessage / isCustomerSupportQuery / healthCheck  *)
(*   (src/lib/hybrid-chat-service.ts), the dataset client                  *)
(*   ApiService.makeRequest (same file) and the generative client          *)
(*   GeminiApiService (src/lib/google-tts.ts), and the generative relay    *)
(*   POST /api/gemini (src/app/api/gemini/route.ts); the ConnectionStatus  *)
(*   component (src/components/connection-status.tsx), the chat page       *)
(*   (src/app/page.tsx), SpeechRecognitionService (src/unnamed/part_001)   *)
(*   and TextToSpeechService (src/unnamed/part_000).                       *)
(*                                                                         *)
(* JavaScript values are modelled as tagged records so that property       *)
(* access, truthiness and "undefined" behave as in the source.             *)
(***************************************************************************)
EXTENDS Integers, Sequences, FiniteSets, TLC

\* ------------------------------------------------------------------ bounds
\* confidence scores a dataset payload may carry: 0..MaxConfidence
MaxConfidence == 1
\* number of distinct tokens Math.random() may produce for a session id
NumTokens == 1
\* the clock read by Date.now() runs over 0..MaxClock milliseconds
MaxClock == 2
\* messages typed over the classifier's test alphabet have at most this length
MaxMessageLen == 4
\* ConnectionStatus: Date.now() advances in steps of ClockStep milliseconds
\* up to MaxConnTime, and at most MaxProbes health probes are issued
ClockStep == 30000
MaxConnTime == 360000
MaxProbes == 3
\* the chat page: at most MaxSends messages are sent to the router
MaxSends == 2
\* speak() is called at most this many times
MaxUtterances == 3
\* speechSynthesis.getVoices() returns at most this many voices
MaxVoices == 2

\* --------------------------------------------------------- JavaScript values
JUndefined == [t |-> "undefined"]
JNull == [t |-> "null"]
JTrue == [t |-> "boolean", b |-> TRUE]
JFalse == [t |-> "boolean", b |-> FALSE]
Str(s) == [t |-> "string", s |-> s]
Text(chars) == [t |-> "string", chars |-> chars]
Num(n) == [t |-> "number", n |-> n]
Obj(fields) == [t |-> "object", f |-> fields]
\* ms / 1000: a number of seconds, kept as the exact quotient n / per
DividedBy1000(ms) == [t |-> "number", n |-> ms, per |-> 1000]
\* Date.prototype.toISOString of the instant at clock value ms
IsoString(ms) == Str(ToString(ms))
\* an object without own properties: {}
EmptyObj == [t |-> "object", f |-> << >>]

IsNullish(v) == v.t \in {"undefined", "null"}

\* property read v.name; the caller has excluded null/undefined (TypeError)
Get(v, name) ==
    IF v.t = "object" /\ name \in DOMAIN v.f THEN v.f[name] ELSE JUndefined

HasField(v, name) == v.t = "object" /\ name \in DOMAIN v.f

\* ToBoolean
Truthy(v) ==
    CASE v.t = "undefined" -> FALSE
      [] v.t = "null" -> FALSE
      [] v.t = "boolean" -> v.b
      [] v.t = "number" -> v.n # 0
      [] v.t = "string" -> IF "chars" \in DOMAIN v THEN v.chars # << >> ELSE v.s # ""
      [] OTHER -> TRUE

\* a || b
Or(a, b) == IF Truthy(a) THEN a ELSE b

\* ------------------------------------------------- isCustomerSupportQuery
supportKeywords ==
    << <<"h", "e", "l", "p">>,
       <<"s", "u", "p", "p", "o", "r", "t">>,
       <<"p", "r", "o", "b", "l", "e", "m">>,
       <<"i", "s", "s", "u", "e">>,
       <<"e", "r", "r", "o", "r">>,
       <<"b", "u", "g">>,
       <<"c", "o", "m", "p", "l", "a", "i", "n", "t">>,
       <<"r", "e", "f", "u", "n", "d">>,
       <<"r", "e", "t", "u", "r", "n">>,
       <<"c", "a", "n", "c", "e", "l">>,
       <<"b", "i", "l", "l", "i", "n", "g">>,
       <<"p", "a", "y", "m", "e", "n", "t">>,
       <<"a", "c", "c", "o", "u", "n", "t">>,
       <<"l", "o", "g", "i", "n">>,
       <<"p", "a", "s", "s", "w", "o", "r", "d">>,
       <<"r", "e", "s", "e", "t">>,
       <<"c", "o", "n", "t", "a", "c", "t">>,
       <<"p", "h", "o", "n", "e">>,
       <<"e", "m", "a", "i", "l">> >>

UpperToLower ==
    ("A" :> "a") @@ ("B" :> "b") @@ ("C" :> "c") @@ ("D" :> "d") @@ ("E" :> "e") @@ ("F" :> "f") @@
    ("G" :> "g") @@ ("H" :> "h") @@ ("I" :> "i") @@ ("J" :> "j") @@ ("K" :> "k") @@ ("L" :> "l") @@
    ("M" :> "m") @@ ("N" :> "n") @@ ("O" :> "o") @@ ("P" :> "p") @@ ("Q" :> "q") @@ ("R" :> "r") @@
    ("S" :> "s") @@ ("T" :> "t") @@ ("U" :> "u") @@ ("V" :> "v") @@ ("W" :> "w") @@ ("X" :> "x") @@
    ("Y" :> "y") @@ ("Z" :> "z")

\* String.prototype.toLowerCase on a sequence of characters
toLowerCase(chars) ==
    [i \in 1..Len(chars) |->
        IF chars[i] \in DOMAIN UpperToLower THEN UpperToLower[chars[i]] ELSE chars[i]]

\* String.prototype.includes
includes_atStartOnly(chars, keyword) ==
    Len(keyword) <= Len(chars) /\ SubSeq(chars, 1, Len(keyword)) = keyword

includes(chars, keyword) ==
    \E i \in 0..(Len(chars) - Len(keyword)) :
        SubSeq(chars, i + 1, i + Len(keyword)) = keyword

\* message.toLowerCase() throws a TypeError unless message is a string
isCustomerSupportQueryThrows(message) == message.t # "string"

isCustomerSupportQuery_caseSensitive(message) ==
    \E k \in 1..Len(supportKeywords) : includes(message.chars, supportKeywords[k])

isCustomerSupportQuery(message) ==
    LET lowerMessage == toLowerCase(message.chars)
    IN  \E k \in 1..Len(supportKeywords) : includes(lowerMessage, supportKeywords[k])


\* ------------------------------------------------------------ HTTP transport
\* JSON.stringify drops the properties whose value is undefined
Stringify(obj) ==
    Obj([k \in {n \in DOMAIN obj.f : obj.f[n].t # "undefined"} |-> obj.f[k]])

\* what one fetch() can do: reject, or resolve with a status and a body
\* that either parses as JSON (value) or makes response.json() throw
FetchReject(name, mentionsFetch) ==
    [kind |-> "reject", name |-> name, mentionsFetch |-> mentionsFetch]
FetchJson(status, value) ==
    [kind |-> "response", status |-> status, json |-> TRUE, value |-> value]
FetchNotJson(status) ==
    [kind |-> "response", status |-> status, json |-> FALSE, value |-> JUndefined]

AbortError == FetchReject("AbortError", FALSE)
FailedToFetch == FetchReject("TypeError", TRUE)

\* response.ok
ResponseOk(fo) == fo.status >= 200 /\ fo.status <= 299

Throw(message) == [kind |-> "throw", message |-> message]
Return(value) == [kind |-> "return", value |-> value]

\* --------------------------------------------------- ApiService.makeRequest
\* a response that is not ok is handed back in-band instead of thrown
makeRequest_returnsErrorStatus(fo) ==
    IF fo.kind = "reject"
    THEN IF fo.name = "AbortError"
         THEN Throw("Request timeout. Please check your connection and try again.")
         ELSE IF fo.mentionsFetch
         THEN Throw("Unable to connect to the backend. Please ensure the Flask server is running on http://localhost:5000")
         ELSE Throw("fetch rejected")
    ELSE IF ~ResponseOk(fo)
    THEN Return(Obj([status |-> Str("error"), message |-> Str("HTTP status")]))
    ELSE IF ~fo.json
    THEN Throw("Unexpected token in JSON")
    ELSE Return(Obj([status |-> Str("success"), data |-> fo.value]))

makeRequest(fo) ==
    IF fo.kind = "reject"
    THEN IF fo.name = "AbortError"
         THEN Throw("Request timeout. Please check your connection and try again.")
         ELSE IF fo.mentionsFetch
         THEN Throw("Unable to connect to the backend. Please ensure the Flask server is running on http://localhost:5000")
         ELSE Throw("fetch rejected")
    ELSE IF ~ResponseOk(fo)
    THEN IF fo.status = 429
         THEN Throw("Rate limit exceeded. Please wait before trying again.")
         ELSE IF fo.status = 404
         THEN Throw("API endpoint not found. Please check if the backend is running.")
         ELSE IF fo.status >= 500
         THEN Throw("Server error. Please try again later.")
         ELSE Throw("HTTP status")
    ELSE IF ~fo.json
    THEN Throw("Unexpected token in JSON")
    ELSE Return(Obj([status |-> Str("success"), data |-> fo.value]))

\* ApiService.sendMessage / ApiService.healthCheck delegate to makeRequest
ApiServiceSendMessage(fo) == makeRequest(fo)
ApiServiceHealthCheck(fo) == makeRequest(fo)

\* ------------------------------------------------------- GeminiApiService
\* sendMessage: a rejected fetch or an unparsable body becomes an in-band
\* error; any parsed JSON value is returned as it is (a cast, no validation)
GeminiSendMessage(fo) ==
    IF fo.kind = "reject"
    THEN Obj([status |-> Str("error"), message |-> Str("Network error")])
    ELSE IF ~fo.json
    THEN Obj([status |-> Str("error"), message |-> Str("Unexpected token in JSON")])
    ELSE fo.value

\* testConnection: connected iff the parsed body has status "success"; a
\* rejected fetch, an unparsable body and a null body are all caught
GeminiTestConnection(fo) ==
    IF fo.kind = "reject" \/ ~fo.json \/ IsNullish(fo.value)
    THEN [connected |-> FALSE]
    ELSE [connected |-> Get(fo.value, "status") = Str("success")]

GeminiHealthCheck(fo) ==
    Obj([status |-> IF GeminiTestConnection(fo).connected
                    THEN Str("success") ELSE Str("error")])

\* ------------------------------------------------------- requests and payloads
MsgRefund == <<"I", " ", "n", "e", "e", "d", " ", "a", " ", "r", "e", "f", "u", "n", "d">>
MsgJoke == <<"t", "e", "l", "l", " ", "m", "e", " ", "a", " ", "j", "o", "k", "e">>
MsgHelpUpper == <<"H", "E", "L", "P">>
MsgDebug == <<"D", "e", "b", "u", "g">>
MsgEmpty == << >>

\* messages of type string, and what a caller can pass instead of a string
TextMessages == {Text(MsgRefund), Text(MsgJoke), Text(MsgHelpUpper), Text(MsgDebug), Text(MsgEmpty)}
NonTextMessages == {JUndefined, Num(42)}

UseDatasetValues == {JTrue, JFalse, JUndefined}
SessionIdValues == {JUndefined, Str(""), Str("session-1")}
ModelTypeValues == {JUndefined, Str("basic")}

RequestObjects(messages) ==
    { Obj([message |-> m, session_id |-> s, use_dataset |-> u, model_type |-> t]) :
        m \in messages, s \in SessionIdValues, u \in UseDatasetValues, t \in ModelTypeValues }

\* HybridChatRequest values (message: string); those among them with the
\* non-empty message the page sends; and the calls that do not respect the type
TypedRequests == RequestObjects(TextMessages)
WellFormedRequests == RequestObjects(TextMessages \ {Text(MsgEmpty)})
MalformedRequests == {JUndefined} \cup RequestObjects(NonTextMessages)
Requests == TypedRequests \cup MalformedRequests

\* Math.random().toString(36).substring(7)
RandomTokens == { Str("tok" \o ToString(i)) : i \in 1..NumTokens }

Confidences == { Num(c) : c \in 0..MaxConfidence }

\* bodies the dataset backend's POST /chat can answer with
DatasetChatPayloads ==
    { Obj([response |-> Str("dataset answer"), session_id |-> Str("dataset-sid"),
           response_time |-> DividedBy1000(1), confidence |-> c]) : c \in Confidences }
    \cup { Obj([response |-> Str("dataset answer"), session_id |-> Str("dataset-sid"),
                response_time |-> DividedBy1000(1)]),
           EmptyObj, JNull }

DatasetFetchOutcomes ==
    { AbortError, FailedToFetch,
      FetchNotJson(429), FetchNotJson(404), FetchNotJson(500), FetchNotJson(400),
      FetchNotJson(200) }
    \cup { FetchJson(200, p) : p \in DatasetChatPayloads }

GeminiInBandError == Obj([status |-> Str("error"), message |-> Str("Gemini API Error")])

\* bodies the relay answers a "send" with (src/app/api/gemini/route.ts): an
\* answer needs a non-empty message; every failure is an in-band error
RelaySendPayloads(body) ==
    { GeminiInBandError }
    \cup IF Truthy(Get(body, "message"))
         THEN { Obj([status |-> Str("success"),
                     data |-> Obj([response |-> Str("gemini answer"),
                                   session_id |-> Get(body, "session_id"),
                                   response_time |-> DividedBy1000(1)])]) }
         ELSE {}

\* bodies that are JSON but not the relay's envelope
MalformedGeminiPayloads ==
    { JNull, EmptyObj, Obj([status |-> Str("success")]) }

GeminiFetchOutcomes(body) ==
    { FailedToFetch, FetchNotJson(500) }
    \cup { FetchJson(200, p) : p \in RelaySendPayloads(body) \cup MalformedGeminiPayloads }

\* ----------------------------------------------------------------- state
VARIABLES
    pc,          \* position of the sendMessage call: idle, gemini1, dataset, gemini2, done
    request,     \* the argument of the sendMessage call
    sessionId,   \* const sessionId (line 23)
    calls,       \* the backend calls issued so far, in order, with their outcome
    result,      \* how the promise returned by sendMessage settled
    hpc,         \* position of the healthCheck call: idle, probing, done
    datasetProbe,   \* apiService.healthCheck(): Pending or how it settled
    geminiProbe,    \* geminiApiService.healthCheck(): Pending or how it settled
    healthResult,   \* how the promise returned by healthCheck settled
    now,         \* the value Date.now() returns, in milliseconds
    startTime,   \* const startTime (line 22)
    cmsg,        \* the argument of an isCustomerSupportQuery call
    cverdict,    \* what that call returned
    responseArrived, \* whether await fetch (line 276) of the dataset request
                     \* has resumed with a 2xx response (timer cleared, 285)
    relayPc,     \* position of the relay's POST handler: idle, health, translate, send, done
    relayReq,    \* the request body the relay received
    apiKey,      \* what getApiKey() returned
    started,     \* const started (route.ts line 23)
    relaySid,    \* const sid (route.ts line 104)
    modelCalls,  \* the model.generateContent calls so far, with their outcome
    reply,       \* the HTTP reply of the relay
    \* ConnectionStatus (src/components/connection-status.tsx)
    isConnected,             \* useState<boolean | null>(null), line 16
    isChecking,              \* line 17
    datasetConnected,        \* line 20
    geminiConnected,         \* line 21
    lastHealthCheckRef,      \* line 23: null or { result, timestamp }
    lastGoodRef,             \* line 24: null or { result, timestamp }
    consecutiveFailuresRef,  \* line 25
    mounted,                 \* whether the effect of line 109 has run
    nextPoll,                \* when the interval of line 112 is due next
    inflight,                \* hybridChatService.healthCheck() calls awaited at line 48
    issued,                  \* number of health probes issued so far
    downStreak,              \* number of latest probe results in a row with both backends down
    lastEvent,               \* what happened last: mount, poll, refresh, complete, tick
    pageIsConnected,         \* the page's isConnected (page.tsx line 41)
    \* the chat page (src/app/page.tsx)
    messages,                \* line 34
    inputMessage,            \* line 35, as a sequence of characters
    isLoading,               \* line 36
    pageError,               \* line 42
    routerCalls,             \* the hybridChatService.sendMessage calls of the page, with their outcome
    pageEvent,               \* what happened last: mount, type, connection, sendMessage, response
    \* SpeechRecognitionService (src/unnamed/part_001)
    recognition,             \* line 18; "unbuilt" before the constructor has run
    isSupported,             \* line 19
    isListening,             \* line 20
    registered,              \* the caller whose onResult/onError/onStart/onEnd are stored (lines 21-24)
    recognizer,              \* the browser's recognizer: idle, starting, running, ending
    recognitionLang,         \* recognition.lang
    startedFor,              \* the caller whose startListening started the recognition under way
    listenReturn,            \* what the startListening call just made returned, and to whom it reported
    delivered,               \* the recognizer event handled last, and the caller it reached
    \* TextToSpeechService (src/unnamed/part_000)
    synthesis,               \* line 12; "unbuilt" before the constructor has run
    ttsIsSupported,          \* line 13 (isSupported)
    currentUtterance,        \* line 15; 0 for null, else the number of the utterance
    isSpeaking,              \* line 16
    utterances,              \* the utterances made so far: queued, speaking, interrupted, cancelled, over
    ttsEvent,                \* what happened last in the service, and to which utterance
    voices,                  \* line 14: the voices the browser offers
    targetTag,               \* the argument of pickBestVoice
    picked                   \* what pickBestVoice returned: the position of the voice, 0 for undefined

routerVars == <<pc, request, sessionId, calls, result, startTime>>
healthVars == <<hpc, datasetProbe, geminiProbe, healthResult>>
classifyVars == <<cmsg, cverdict>>
relayVars == <<relayPc, relayReq, apiKey, started, relaySid, modelCalls, reply>>
connVars == <<isConnected, isChecking, datasetConnected, geminiConnected,
              lastHealthCheckRef, lastGoodRef, consecutiveFailuresRef,
              mounted, nextPoll, inflight, issued, downStreak, lastEvent>>
pageVars == <<messages, inputMessage, isLoading, pageError, routerCalls, pageEvent>>
speechVars == <<recognition, isSupported, isListening, registered, recognizer,
                recognitionLang, startedFor,
                listenReturn, delivered>>
ttsVars == <<synthesis, ttsIsSupported, currentUtterance, isSpeaking, utterances, ttsEvent>>
voiceVars == <<voices, targetTag, picked>>
uiVars == <<connVars, pageIsConnected, pageVars, speechVars, ttsVars, voiceVars>>
otherVars == <<now, classifyVars, responseArrived, relayVars, uiVars>>

vars == <<pc, request, sessionId, calls, result, startTime,
          hpc, datasetProbe, geminiProbe, healthResult, now, cmsg, cverdict,
          responseArrived, relayPc, relayReq, apiKey, started, relaySid, modelCalls, reply,
          uiVars>>

\* the components before they are mounted
InitComponents ==
    /\ isConnected = [t |-> "null"]
    /\ isChecking = FALSE
    /\ datasetConnected = FALSE
    /\ geminiConnected = FALSE
    /\ lastHealthCheckRef = [t |-> "null"]
    /\ lastGoodRef = [t |-> "null"]
    /\ consecutiveFailuresRef = 0
    /\ mounted = FALSE
    /\ nextPoll = 0
    /\ inflight = 0
    /\ issued = 0
    /\ downStreak = 0
    /\ lastEvent = "none"
    /\ pageIsConnected = FALSE
    /\ messages = << >>
    /\ inputMessage = << >>
    /\ isLoading = FALSE
    /\ pageError = [t |-> "null"]
    /\ routerCalls = << >>
    /\ pageEvent = "none"
    /\ recognition = "unbuilt"
    /\ isSupported = FALSE
    /\ isListening = FALSE
    /\ registered = "nobody"
    /\ recognizer = "idle"
    /\ recognitionLang = "none"
    /\ startedFor = "nobody"
    /\ listenReturn = [kind |-> "none"]
    /\ delivered = [kind |-> "none"]
    /\ synthesis = "unbuilt"
    /\ ttsIsSupported = FALSE
    /\ currentUtterance = 0
    /\ isSpeaking = FALSE
    /\ utterances = << >>
    /\ ttsEvent = [kind |-> "none"]

\* ... and before the browser has offered a voice
InitUi ==
    /\ InitComponents
    /\ voices = << >>
    /\ targetTag = << >>
    /\ picked = [kind |-> "none"]

Pending == [kind |-> "pending"]
NoResult == [kind |-> "none"]
Resolved(value) == [kind |-> "resolved", value |-> value]
Rejected(error) == [kind |-> "rejected", error |-> error]

Call(backend, body) == [backend |-> backend, body |-> body, outcome |-> Pending]

\* the log with the outcome of the call in flight (the last one) filled in
Settle(log, fo) == [log EXCEPT ![Len(log)].outcome = fo]

\* ------------------------------------------------ sendMessage: pure parts
\* (Date.now() - startTime) / 1000, lines 35, 63, 89, 110
ResponseTime == DividedBy1000(now - startTime)

\* new Date().toISOString()
Timestamp == IsoString(now)

GuidanceText ==
    "I'm having trouble connecting to my AI services right now. Please check that your Gemini API key is properly configured in Project Settings -> Environment Variables. You can get a free API key from Google AI Studio (aistudio.google.com)."

\* body of geminiApiService.sendMessage's POST (lines 29-32, 83-86)
GeminiBody(req, sid) ==
    Stringify(Obj([action |-> Str("send"), message |-> Get(req, "message"), session_id |-> sid]))

\* body of apiService.sendMessage's POST (lines 56-60)
DatasetBody(req, sid) ==
    Stringify(Obj([message |-> Get(req, "message"), session_id |-> sid,
                   model_type |-> Or(Get(req, "model_type"), Str("enhanced"))]))

\* line 26: !request.use_dataset || !this.isCustomerSupportQuery(request.message)
TryGeminiFirst_ignoresClassification(req) ==
    IF ~Truthy(Get(req, "use_dataset")) THEN "yes" ELSE "no"

TryGeminiFirst(req) ==
    IF ~Truthy(Get(req, "use_dataset")) THEN "yes"
    ELSE IF isCustomerSupportQueryThrows(Get(req, "message")) THEN "throw"
    ELSE IF ~isCustomerSupportQuery(Get(req, "message")) THEN "yes"
    ELSE "no"

\* line 54: request.use_dataset || this.isCustomerSupportQuery(request.message)
TryDataset_afterAnyFailure(req) == "yes"

TryDataset(req) ==
    IF Truthy(Get(req, "use_dataset")) THEN "yes"
    ELSE IF isCustomerSupportQueryThrows(Get(req, "message")) THEN "throw"
    ELSE IF isCustomerSupportQuery(Get(req, "message")) THEN "yes"
    ELSE "no"

\* lines 34, 62, 88: response.status === "success" && response.data
\* (the caller has excluded a null/undefined response)
IsSuccessWithData_requiresResponse(resp) ==
    /\ Get(resp, "status") = Str("success")
    /\ Truthy(Get(resp, "data"))
    /\ Truthy(Get(Get(resp, "data"), "response"))

IsSuccessWithData(resp) ==
    Get(resp, "status") = Str("success") /\ Truthy(Get(resp, "data"))

\* lines 36-46 and 90-100
GeminiResult_withConfidence(resp, sid) ==
    Obj([status |-> Str("success"),
         data |-> Obj([response |-> Get(Get(resp, "data"), "response"),
                       source |-> Str("gemini"),
                       session_id |-> sid,
                       response_time |-> ResponseTime,
                       timestamp |-> Timestamp,
                       confidence |-> Get(Get(resp, "data"), "response_time")]),
         timestamp |-> Timestamp])

GeminiResult_labelledDataset(resp, sid) ==
    Obj([status |-> Str("success"),
         data |-> Obj([response |-> Get(Get(resp, "data"), "response"),
                       source |-> Str("dataset"),
                       session_id |-> sid,
                       response_time |-> ResponseTime,
                       timestamp |-> Timestamp]),
         timestamp |-> Timestamp])

GeminiResult(resp, sid) ==
    Obj([status |-> Str("success"),
         data |-> Obj([response |-> Get(Get(resp, "data"), "response"),
                       source |-> Str("gemini"),
                       session_id |-> sid,
                       response_time |-> ResponseTime,
                       timestamp |-> Timestamp]),
         timestamp |-> Timestamp])

\* lines 64-75
DatasetResult_defaultConfidence(resp, sid) ==
    Obj([status |-> Str("success"),
         data |-> Obj([response |-> Get(Get(resp, "data"), "response"),
                       source |-> Str("dataset"),
                       session_id |-> sid,
                       response_time |-> ResponseTime,
                       timestamp |-> Timestamp,
                       confidence |-> Or(Get(Get(resp, "data"), "confidence"), Num(1))]),
         timestamp |-> Timestamp])

DatasetResult_backendResponseTime(resp, sid) ==
    Obj([status |-> Str("success"),
         data |-> Obj([response |-> Get(Get(resp, "data"), "response"),
                       source |-> Str("dataset"),
                       session_id |-> sid,
                       response_time |-> Get(Get(resp, "data"), "response_time"),
                       timestamp |-> Timestamp,
                       confidence |-> Get(Get(resp, "data"), "confidence")]),
         timestamp |-> Timestamp])

DatasetResult_backendSessionId(resp, sid) ==
    Obj([status |-> Str("success"),
         data |-> Obj([response |-> Get(Get(resp, "data"), "response"),
                       source |-> Str("dataset"),
                       session_id |-> Or(Get(Get(resp, "data"), "session_id"), sid),
                       response_time |-> ResponseTime,
                       timestamp |-> Timestamp,
                       confidence |-> Get(Get(resp, "data"), "confidence")]),
         timestamp |-> Timestamp])

DatasetResult(resp, sid) ==
    Obj([status |-> Str("success"),
         data |-> Obj([response |-> Get(Get(resp, "data"), "response"),
                       source |-> Str("dataset"),
                       session_id |-> sid,
                       response_time |-> ResponseTime,
                       timestamp |-> Timestamp,
                       confidence |-> Get(Get(resp, "data"), "confidence")]),
         timestamp |-> Timestamp])

\* lines 103-114
GuidanceResult_asError(sid) ==
    Obj([status |-> Str("error"), message |-> Str("Failed to get response from any AI service"),
         timestamp |-> Timestamp])

GuidanceResult(sid) ==
    Obj([status |-> Str("success"),
         data |-> Obj([response |-> Str(GuidanceText),
                       source |-> Str("gemini"),
                       session_id |-> sid,
                       response_time |-> ResponseTime,
                       timestamp |-> Timestamp]),
         timestamp |-> Timestamp])

\* lines 115-122
ErrorResult(message) ==
    Obj([status |-> Str("error"), message |-> Str(message), timestamp |-> Timestamp])

\* where the call goes when the dataset attempt did not produce a result
\* (lines 76-83): on to the final generative attempt
AfterDatasetFailure_startOver == "gemini1"

AfterDatasetFailure == "gemini2"

\* ------------------------------------------------- sendMessage: the steps
\* line 54 onwards, up to the next await or return
GoDataset(req, sid, log) ==
    CASE TryDataset(req) = "throw" ->
            /\ pc' = "done"
            /\ calls' = log
            /\ result' = Resolved(ErrorResult("message.toLowerCase is not a function"))
      [] TryDataset(req) = "yes" ->
            /\ pc' = "dataset"
            /\ calls' = Append(log, Call("dataset", DatasetBody(req, sid)))
            /\ result' = NoResult
      [] OTHER ->
            /\ pc' = "gemini2"
            /\ calls' = Append(log, Call("gemini", GeminiBody(req, sid)))
            /\ result' = NoResult

\* lines 21-32: the call up to its first await (or its return)
SendMessage(req) ==
    /\ pc = "idle"
    /\ request' = req
    /\ startTime' = now
    /\ IF IsNullish(req)
       THEN \* line 23 reads request.session_id outside the try block
            /\ sessionId' = JUndefined
            /\ pc' = "done"
            /\ calls' = << >>
            /\ result' = Rejected("Cannot read properties of undefined (reading 'session_id')")
       ELSE \E tok \in RandomTokens :
            LET sid == Or(Get(req, "session_id"), tok) IN
            /\ sessionId' = sid
            /\ CASE TryGeminiFirst(req) = "throw" ->
                       /\ pc' = "done"
                       /\ calls' = << >>
                       /\ result' = Resolved(ErrorResult("message.toLowerCase is not a function"))
                 [] TryGeminiFirst(req) = "yes" ->
                       /\ pc' = "gemini1"
                       /\ calls' = << Call("gemini", GeminiBody(req, sid)) >>
                       /\ result' = NoResult
                 [] OTHER -> GoDataset(req, sid, << >>)
    /\ UNCHANGED <<healthVars, otherVars>>

\* lines 29-51: the first generative attempt settles
GeminiFirstSettles ==
    /\ pc = "gemini1"
    /\ \E fo \in GeminiFetchOutcomes(calls[Len(calls)].body) :
       LET resp == GeminiSendMessage(fo)
           log == Settle(calls, fo)
       IN  IF ~IsNullish(resp) /\ IsSuccessWithData(resp)
           THEN /\ pc' = "done"
                /\ calls' = log
                /\ result' = Resolved(GeminiResult(resp, sessionId))
           ELSE \* not a success, or a TypeError caught at line 48
                GoDataset(request, sessionId, log)
    /\ UNCHANGED <<request, sessionId, startTime>>
    /\ UNCHANGED <<healthVars, otherVars>>

\* lines 56-86: the dataset attempt settles
DatasetSettles(fo) ==
    /\ pc = "dataset"
    /\ LET r == ApiServiceSendMessage(fo)
           log == Settle(calls, fo)
       IN  IF r.kind = "return" /\ IsSuccessWithData(r.value)
           THEN /\ pc' = "done"
                /\ calls' = log
                /\ result' = Resolved(DatasetResult(r.value, sessionId))
           ELSE /\ pc' = AfterDatasetFailure
                /\ calls' = Append(log, Call("gemini", GeminiBody(request, sessionId)))
                /\ result' = NoResult
    /\ UNCHANGED <<request, sessionId, startTime>>
    /\ UNCHANGED <<healthVars, otherVars>>

\* lines 83-122: the final generative attempt settles
GeminiFinalSettles ==
    /\ pc = "gemini2"
    /\ \E fo \in GeminiFetchOutcomes(calls[Len(calls)].body) :
       LET resp == GeminiSendMessage(fo)
           log == Settle(calls, fo)
       IN  /\ pc' = "done"
           /\ calls' = log
           /\ result' =
                IF IsNullish(resp)
                THEN \* line 88 reads geminiResponse.status: caught at line 115
                     Resolved(ErrorResult("Cannot read properties of null (reading 'status')"))
                ELSE IF IsSuccessWithData(resp)
                THEN Resolved(GeminiResult(resp, sessionId))
                ELSE Resolved(GuidanceResult(sessionId))
    /\ UNCHANGED <<request, sessionId, startTime>>
    /\ UNCHANGED <<healthVars, otherVars>>

\* ------------------------------------------------------------- healthCheck
NotStarted == [kind |-> "notstarted"]
Fulfilled(value) == [status |-> "fulfilled", value |-> value]
RejectedWith(reason) == [status |-> "rejected", reason |-> reason]
Settled(fo, promise) == [kind |-> "settled", outcome |-> fo, promise |-> promise]

\* bodies of the dataset backend's GET /health
DatasetHealthPayloads == { Obj([status |-> Str("healthy")]), JNull }

DatasetHealthOutcomes ==
    { AbortError, FailedToFetch,
      FetchNotJson(429), FetchNotJson(404), FetchNotJson(500), FetchNotJson(400),
      FetchNotJson(200) }
    \cup { FetchJson(200, p) : p \in DatasetHealthPayloads }

\* bodies the relay answers a "health" with (route.ts lines 46-65), and
\* JSON bodies that are not the relay's envelope
GeminiHealthPayloads ==
    { Obj([status |-> Str("success"), data |-> Obj([ok |-> JTrue])]),
      Obj([status |-> Str("error"), message |-> Str("Gemini health check failed")]),
      JNull, EmptyObj }

GeminiHealthOutcomes ==
    { FailedToFetch, FetchNotJson(500) }
    \cup { FetchJson(200, p) : p \in GeminiHealthPayloads }

\* line 158 / 159
ProbeStatus(settled) ==
    /\ settled.status = "fulfilled"
    /\ ~IsNullish(settled.value)
    /\ Get(settled.value, "status") = Str("success")

JBool(b) == IF b THEN JTrue ELSE JFalse

\* lines 161-177
HealthResult_anyIsHybrid(datasetHealth, geminiHealth) ==
    LET datasetStatus == ProbeStatus(datasetHealth)
        geminiStatus == ProbeStatus(geminiHealth)
    IN  Obj([status |-> IF datasetStatus \/ geminiStatus THEN Str("success") ELSE Str("error"),
             data |-> Obj([dataset_backend |-> JBool(datasetStatus),
                           gemini_api |-> JBool(geminiStatus),
                           hybrid_mode |-> JBool(datasetStatus \/ geminiStatus)])])

HealthResult(datasetHealth, geminiHealth) ==
    LET datasetStatus == ProbeStatus(datasetHealth)
        geminiStatus == ProbeStatus(geminiHealth)
    IN  Obj([status |-> IF datasetStatus \/ geminiStatus THEN Str("success") ELSE Str("error"),
             data |-> Obj([dataset_backend |-> JBool(datasetStatus),
                           gemini_api |-> JBool(geminiStatus),
                           hybrid_mode |-> JBool(datasetStatus /\ geminiStatus)]),
             message |-> Str(IF datasetStatus /\ geminiStatus THEN "Both services available"
                             ELSE IF datasetStatus THEN "Dataset backend only"
                             ELSE IF geminiStatus THEN "Gemini API only"
                             ELSE "No services available")])

\* lines 153-156: both probes are started before the await
HealthCheck ==
    /\ hpc \in {"idle", "done"}
    /\ hpc' = "probing"
    /\ datasetProbe' = Pending
    /\ geminiProbe' = Pending
    /\ UNCHANGED healthResult
    /\ UNCHANGED <<routerVars, otherVars>>

\* apiService.healthCheck() settles: fulfilled or rejected by makeRequest
DatasetProbeSettles(fo) ==
    /\ hpc = "probing"
    /\ datasetProbe = Pending
    /\ LET r == ApiServiceHealthCheck(fo)
       IN  datasetProbe' = Settled(fo, IF r.kind = "throw"
                                       THEN RejectedWith(r.message)
                                       ELSE Fulfilled(r.value))
    /\ UNCHANGED <<hpc, geminiProbe, healthResult>>
    /\ UNCHANGED <<routerVars, otherVars>>

\* geminiApiService.healthCheck() settles: it never rejects
GeminiProbeSettles(fo) ==
    /\ hpc = "probing"
    /\ geminiProbe = Pending
    /\ geminiProbe' = Settled(fo, Fulfilled(GeminiHealthCheck(fo)))
    /\ UNCHANGED <<hpc, datasetProbe, healthResult>>
    /\ UNCHANGED <<routerVars, otherVars>>

\* Promise.all in place of Promise.allSettled: the first rejection rejects
HealthCheckReturns_promiseAll ==
    /\ hpc = "probing"
    /\ \/ /\ datasetProbe.kind = "settled"
          /\ datasetProbe.promise.status = "rejected"
          /\ healthResult' = Rejected(datasetProbe.promise.reason)
       \/ /\ datasetProbe.kind = "settled"
          /\ datasetProbe.promise.status = "fulfilled"
          /\ geminiProbe.kind = "settled"
          /\ healthResult' = Resolved(HealthResult(datasetProbe.promise, geminiProbe.promise))
    /\ hpc' = "done"
    /\ UNCHANGED <<datasetProbe, geminiProbe>>
    /\ UNCHANGED <<routerVars, otherVars>>

\* Promise.allSettled resolves once both probes have settled (lines 153-177)
HealthCheckReturns ==
    /\ hpc = "probing"
    /\ datasetProbe.kind = "settled"
    /\ geminiProbe.kind = "settled"
    /\ hpc' = "done"
    /\ healthResult' = Resolved(HealthResult(datasetProbe.promise, geminiProbe.promise))
    /\ UNCHANGED <<datasetProbe, geminiProbe>>
    /\ UNCHANGED <<routerVars, otherVars>>

\* ------------------------------------------------------------ specifications
Init ==
    /\ pc = "idle"
    /\ request = JUndefined
    /\ sessionId = JUndefined
    /\ calls = << >>
    /\ result = NoResult
    /\ hpc = "idle"
    /\ datasetProbe = NotStarted
    /\ geminiProbe = NotStarted
    /\ healthResult = NoResult
    /\ now = 0
    /\ startTime = 0
    /\ cmsg = << >>
    /\ cverdict = [kind |-> "none"]
    /\ responseArrived = FALSE
    /\ relayPc = "idle"
    /\ relayReq = [kind |-> "none"]
    /\ apiKey = JNull
    /\ started = 0
    /\ relaySid = JUndefined
    /\ modelCalls = << >>
    /\ reply = [kind |-> "none"]
    /\ InitUi

\* one sendMessage call against backends that answer in every possible way
Next ==
    \/ \E req \in Requests : SendMessage(req)
    \/ GeminiFirstSettles
    \/ \E fo \in DatasetFetchOutcomes : DatasetSettles(fo)
    \/ GeminiFinalSettles

Spec == Init /\ [][Next]_vars

\* time passes before the call and while it awaits a backend
Tick ==
    /\ pc # "done"
    /\ now < MaxClock
    /\ now' = now + 1
    /\ UNCHANGED <<routerVars, healthVars, classifyVars, responseArrived, relayVars, uiVars>>

NextTimed == Next \/ Tick

\* the same sendMessage call with the clock running
SpecTimed == Init /\ [][NextTimed]_vars

\* ------------------------- sendMessage with the dataset request in two steps
\* makeRequest awaits twice: the response (line 276), with the abort timer of
\* line 273 armed, and the body (line 300), after line 285 cleared the timer
TimerArmed == pc = "dataset" /\ ~responseArrived

\* fetch outcomes that end makeRequest at its first await: a rejection, or a
\* response that is not ok (lines 287-298 throw without reading the body)
DatasetFetchFailures == { fo \in DatasetFetchOutcomes : fo.kind = "reject" \/ ~ResponseOk(fo) }

\* outcomes whose body is read at line 300
DatasetBodyOutcomes == DatasetFetchOutcomes \ DatasetFetchFailures

\* line 273: the timer fires, controller.abort() rejects the pending fetch
TimeoutFires ==
    /\ TimerArmed
    /\ DatasetSettles(AbortError)

\* the fetch rejects for another reason, or answers with a status that is not ok
FetchFails(fo) ==
    /\ TimerArmed
    /\ fo # AbortError
    /\ DatasetSettles(fo)

\* lines 276-287: a 2xx response arrives and clearTimeout runs
ResponseArrives ==
    /\ TimerArmed
    /\ responseArrived' = TRUE
    /\ UNCHANGED <<routerVars, healthVars, now, classifyVars, relayVars, uiVars>>

\* line 300: response.json() settles
BodyRead(fo) ==
    /\ pc = "dataset"
    /\ responseArrived
    /\ DatasetSettles(fo)

NextLive ==
    \/ \E req \in Requests : SendMessage(req)
    \/ GeminiFirstSettles
    \/ TimeoutFires
    \/ \E fo \in DatasetFetchFailures : FetchFails(fo)
    \/ ResponseArrives
    \/ \E fo \in DatasetBodyOutcomes : BodyRead(fo)
    \/ GeminiFinalSettles

\* the timer of line 273 fires when it is due; the generative calls complete
\* (they have no timer: their completion is taken as given); what the dataset
\* backend sends, and when, is up to the backend
SpecLive ==
    /\ Init
    /\ [][NextLive]_vars
    /\ WF_vars(TimeoutFires)
    /\ WF_vars(GeminiFirstSettles)
    /\ WF_vars(GeminiFinalSettles)

\* ----------------------------------- the relay: POST /api/gemini (route.ts)
\* the request body as received: text that does not parse, or a JSON value
Unparsable == [kind |-> "unparsable"]
JsonBody(value) == [kind |-> "json", value |-> value]

RelayActionValues ==
    { JUndefined, Str("send"), Str("translate"), Str("health"), Str("status"),
      Str("summarize") }
RelayMessageValues == { JUndefined, Text(MsgEmpty), Text(MsgJoke) }
RelayTextValues == { JUndefined, Str("good morning") }
TargetLanguageValues == { JUndefined, Str("hi"), Str("fr") }
RelaySessionIdValues == { JUndefined, Str("session-1") }

RelayRequestBodies ==
    { Unparsable, JsonBody(JNull) }
    \cup { JsonBody(Stringify(Obj([action |-> a, message |-> m, session_id |-> s,
                                   target_language |-> l, text |-> t]))) :
             a \in RelayActionValues, m \in RelayMessageValues,
             s \in RelaySessionIdValues, l \in TargetLanguageValues,
             t \in RelayTextValues }

\* getApiKey(): process.env.NEXT_PUBLIC_GEMINI_API_KEY || null
ApiKeyValues == { JNull, Str("key") }

\* line 25: await req.json().catch(() => ({}))
ReqJson(raw) == IF raw.kind = "unparsable" THEN EmptyObj ELSE raw.value

\* LANG_LABEL[target_language]
LANG_LABEL(lang) ==
    CASE lang = Str("en") -> Str("English")
      [] lang = Str("hi") -> Str("Hindi")
      [] lang = Str("te") -> Str("Telugu")
      [] lang = Str("ta") -> Str("Tamil")
      [] OTHER -> JUndefined

\* model.generateContent(prompt) followed by res.response.text(): a text,
\* possibly empty, or an exception with or without a message
ModelReturns(text) == [kind |-> "return", text |-> text]
ModelThrows(message) == [kind |-> "throw", message |-> message]
ModelOutcomes ==
    { ModelReturns(Str("model text")), ModelReturns(Str("")),
      ModelThrows(Str("quota exceeded")), ModelThrows(JUndefined) }

\* Math.random().toString(36).substring(2, 10)
RelayRandomTokens == { Str("sid" \o ToString(i)) : i \in 1..NumTokens }

ModelCall(prompt) == [prompt |-> prompt, outcome |-> Pending]
PingPrompt == [kind |-> "ping"]
TranslatePrompt(label, text) == [kind |-> "translate", label |-> label, text |-> text]
SendPrompt(instr, message) == [kind |-> "send", instr |-> instr, message |-> message]

NoReply == [kind |-> "none"]
\* NextResponse.json(value, { status })
NextResponseJson(value, status) ==
    [kind |-> "reply", httpStatus |-> status, body |-> Stringify(value)]

\* every error reply has the same shape: { status: "error", message, timestamp }
ErrorBody(message) ==
    Obj([status |-> Str("error"), message |-> message, timestamp |-> IsoString(now)])

\* lines 35-40
MissingKeyReply ==
    NextResponseJson(ErrorBody(Str("Gemini API key missing on server")), 200)

\* lines 47-64
HealthReply(mo) ==
    IF mo.kind = "throw"
    THEN NextResponseJson(ErrorBody(Or(mo.message, Str("Gemini health check error"))), 200)
    ELSE LET ok == Truthy(mo.text)
         IN  NextResponseJson(
                 Obj([status |-> IF ok THEN Str("success") ELSE Str("error"),
                      data |-> IF ok THEN Obj([ok |-> JTrue]) ELSE JUndefined,
                      message |-> IF ok THEN JUndefined ELSE Str("Gemini health check failed"),
                      timestamp |-> IsoString(now)]), 200)

\* lines 69-74
MissingTranslateFieldReply ==
    NextResponseJson(ErrorBody(Str("Missing text or target_language")), 200)

\* lines 78-93
TranslateReply(mo) ==
    IF mo.kind = "throw"
    THEN NextResponseJson(ErrorBody(Or(mo.message, Str("Gemini translation error"))), 200)
    ELSE NextResponseJson(Obj([status |-> Str("success"),
                               data |-> Obj([translated |-> mo.text]),
                               timestamp |-> IsoString(now)]), 200)

\* lines 97-102
MissingMessageReply ==
    NextResponseJson(ErrorBody(Str("Missing message")), 200)

\* lines 114-132
SendReply_exceptionIs500(mo, session) ==
    IF mo.kind = "throw"
    THEN NextResponseJson(ErrorBody(Or(mo.message, Str("Gemini API Error"))), 500)
    ELSE NextResponseJson(Obj([status |-> Str("success"),
                               data |-> Obj([response |-> mo.text,
                                             session_id |-> session,
                                             response_time |-> DividedBy1000(now - started),
                                             timestamp |-> IsoString(now)]),
                               timestamp |-> IsoString(now)]), 200)

SendReply(mo, session) ==
    IF mo.kind = "throw"
    THEN NextResponseJson(ErrorBody(Or(mo.message, Str("Gemini API Error"))), 200)
    ELSE NextResponseJson(Obj([status |-> Str("success"),
                               data |-> Obj([response |-> mo.text,
                                             session_id |-> session,
                                             response_time |-> DividedBy1000(now - started),
                                             timestamp |-> IsoString(now)]),
                               timestamp |-> IsoString(now)]), 200)

\* lines 133-138
BadRequestReply(message) ==
    NextResponseJson(ErrorBody(Or(message, Str("Bad request"))), 200)

\* the handler returns r
RelayReturns(r) ==
    /\ relayPc' = "done"
    /\ reply' = r
    /\ UNCHANGED <<relaySid, modelCalls>>

\* the handler calls the model and waits for it
RelayAwaits(where, prompt, session) ==
    /\ relayPc' = where
    /\ modelCalls' = Append(modelCalls, ModelCall(prompt))
    /\ relaySid' = session
    /\ reply' = NoReply

\* lines 22-114: the handler up to its first model call (or its return)
\* with the health/status branch tested ahead of the API key
POST_healthBeforeKey(raw, key) ==
    /\ relayPc = "idle"
    /\ relayReq' = raw
    /\ apiKey' = key
    /\ started' = now
    /\ IF IsNullish(ReqJson(raw))
       THEN RelayReturns(BadRequestReply(
                Str("Cannot destructure property 'action' of 'body' as it is null.")))
       ELSE LET body == ReqJson(raw)
                action == Get(body, "action")
                message == Get(body, "message")
                session_id == Get(body, "session_id")
                target_language == Get(body, "target_language")
                text == Get(body, "text")
            IN  IF action = Str("health") \/ action = Str("status")
                THEN RelayAwaits("health", PingPrompt, relaySid)
                ELSE IF ~Truthy(key)
                THEN RelayReturns(MissingKeyReply)
                ELSE IF action = Str("translate")
                THEN IF ~Truthy(text) \/ ~Truthy(target_language)
                     THEN RelayReturns(MissingTranslateFieldReply)
                     ELSE RelayAwaits("translate",
                                      TranslatePrompt(LANG_LABEL(target_language), text), relaySid)
                ELSE IF ~Truthy(message)
                THEN RelayReturns(MissingMessageReply)
                ELSE \E tok \in RelayRandomTokens :
                        RelayAwaits("send",
                                    SendPrompt(IF Truthy(target_language)
                                               THEN LANG_LABEL(target_language)
                                               ELSE JUndefined, message),
                                    Or(session_id, tok))
    /\ UNCHANGED <<routerVars, healthVars, now, classifyVars, responseArrived, uiVars>>

POST(raw, key) ==
    /\ relayPc = "idle"
    /\ relayReq' = raw
    /\ apiKey' = key
    /\ started' = now
    /\ IF IsNullish(ReqJson(raw))
       THEN \* line 26 destructures null: TypeError, caught at line 133
            RelayReturns(BadRequestReply(
                Str("Cannot destructure property 'action' of 'body' as it is null.")))
       ELSE LET body == ReqJson(raw)
                action == Get(body, "action")
                message == Get(body, "message")
                session_id == Get(body, "session_id")
                target_language == Get(body, "target_language")
                text == Get(body, "text")
            IN  IF ~Truthy(key)
                THEN RelayReturns(MissingKeyReply)
                ELSE IF action = Str("health") \/ action = Str("status")
                THEN RelayAwaits("health", PingPrompt, relaySid)
                ELSE IF action = Str("translate")
                THEN IF ~Truthy(text) \/ ~Truthy(target_language)
                     THEN RelayReturns(MissingTranslateFieldReply)
                     ELSE RelayAwaits("translate",
                                      TranslatePrompt(LANG_LABEL(target_language), text), relaySid)
                ELSE IF ~Truthy(message)
                THEN RelayReturns(MissingMessageReply)
                ELSE \E tok \in RelayRandomTokens :
                        RelayAwaits("send",
                                    SendPrompt(IF Truthy(target_language)
                                               THEN LANG_LABEL(target_language)
                                               ELSE JUndefined, message),
                                    Or(session_id, tok))
    /\ UNCHANGED <<routerVars, healthVars, now, classifyVars, responseArrived, uiVars>>

ModelSettles(mo) == [modelCalls EXCEPT ![Len(modelCalls)].outcome = mo]

\* lines 48-64
HealthModelSettles(mo) ==
    /\ relayPc = "health"
    /\ modelCalls' = ModelSettles(mo)
    /\ relayPc' = "done"
    /\ reply' = HealthReply(mo)
    /\ UNCHANGED <<relayReq, apiKey, started, relaySid>>
    /\ UNCHANGED <<routerVars, healthVars, now, classifyVars, responseArrived, uiVars>>

\* lines 78-93
TranslateModelSettles(mo) ==
    /\ relayPc = "translate"
    /\ modelCalls' = ModelSettles(mo)
    /\ relayPc' = "done"
    /\ reply' = TranslateReply(mo)
    /\ UNCHANGED <<relayReq, apiKey, started, relaySid>>
    /\ UNCHANGED <<routerVars, healthVars, now, classifyVars, responseArrived, uiVars>>

\* lines 114-132
SendModelSettles(mo) ==
    /\ relayPc = "send"
    /\ modelCalls' = ModelSettles(mo)
    /\ relayPc' = "done"
    /\ reply' = SendReply(mo, relaySid)
    /\ UNCHANGED <<relayReq, apiKey, started, relaySid>>
    /\ UNCHANGED <<routerVars, healthVars, now, classifyVars, responseArrived, uiVars>>

NextRelay ==
    \/ \E raw \in RelayRequestBodies, key \in ApiKeyValues : POST(raw, key)
    \/ \E mo \in ModelOutcomes : HealthModelSettles(mo)
    \/ \E mo \in ModelOutcomes : TranslateModelSettles(mo)
    \/ \E mo \in ModelOutcomes : SendModelSettles(mo)

SpecRelay == Init /\ [][NextRelay]_vars

\* ------------------------- ConnectionStatus (components/connection-status.tsx)
CACHE_DURATION == 60000
POLL_INTERVAL == 120000
FAIL_THRESHOLD == 2
\* line 84: 5 * 60 * 1000
GRACE_PERIOD == 300000

\* the services' variables, and everything outside the component and the
\* page flag it reports to
coreVars == <<routerVars, healthVars, classifyVars, responseArrived, relayVars>>
outsideConn == <<coreVars, pageVars, speechVars, ttsVars, voiceVars>>

\* healthCheck.data (hybrid-chat-service.ts lines 163-167)
ConnHealthData ==
    { Obj([dataset_backend |-> JBool(d), gemini_api |-> JBool(g), hybrid_mode |-> JBool(d /\ g)]) :
        d \in BOOLEAN, g \in BOOLEAN }

\* line 74: Boolean(data?.dataset_backend || data?.gemini_api)
AnyUp(data) == Truthy(Get(data, "dataset_backend")) \/ Truthy(Get(data, "gemini_api"))

Recorded(data) == [result |-> data, timestamp |-> now]

\* page.tsx lines 302-309
handleConnectionChange(connected) == pageIsConnected' = connected

\* lines 69-107
updateConnectionState(data) ==
    /\ IF AnyUp(data)
       THEN /\ consecutiveFailuresRef' = 0
            /\ lastGoodRef' = Recorded(data)
            /\ datasetConnected' = Truthy(Get(data, "dataset_backend"))
            /\ geminiConnected' = Truthy(Get(data, "gemini_api"))
            /\ isConnected' = JTrue
       ELSE LET canUseLastGood ==
                    lastGoodRef # JNull /\ now - lastGoodRef.timestamp < GRACE_PERIOD
            IN  /\ consecutiveFailuresRef' = consecutiveFailuresRef + 1
                /\ lastGoodRef' = lastGoodRef
                /\ IF consecutiveFailuresRef + 1 < FAIL_THRESHOLD /\ canUseLastGood
                   THEN LET last == lastGoodRef.result
                        IN  /\ datasetConnected' = Truthy(Get(last, "dataset_backend"))
                            /\ geminiConnected' = Truthy(Get(last, "gemini_api"))
                            /\ isConnected' = JBool(AnyUp(last))
                   ELSE /\ datasetConnected' = FALSE
                        /\ geminiConnected' = FALSE
                        /\ isConnected' = JFalse
    /\ handleConnectionChange(AnyUp(data))

\* lines 31-48: the cached result is applied, or a probe is started
\* with forceRefresh not consulted
checkConnection_cacheEvenIfForced(forceRefresh) ==
    IF /\ lastHealthCheckRef # JNull
       /\ now - lastHealthCheckRef.timestamp < CACHE_DURATION
    THEN /\ updateConnectionState(lastHealthCheckRef.result)
         /\ UNCHANGED <<isChecking, lastHealthCheckRef, inflight, issued, downStreak>>
    ELSE /\ issued < MaxProbes
         /\ isChecking' = TRUE
         /\ inflight' = inflight + 1
         /\ issued' = issued + 1
         /\ UNCHANGED <<isConnected, datasetConnected, geminiConnected, lastHealthCheckRef,
                        lastGoodRef, consecutiveFailuresRef, downStreak, pageIsConnected>>

checkConnection(forceRefresh) ==
    IF /\ ~forceRefresh
       /\ lastHealthCheckRef # JNull
       /\ now - lastHealthCheckRef.timestamp < CACHE_DURATION
    THEN /\ updateConnectionState(lastHealthCheckRef.result)
         /\ UNCHANGED <<isChecking, lastHealthCheckRef, inflight, issued, downStreak>>
    ELSE /\ issued < MaxProbes
         /\ isChecking' = TRUE
         /\ inflight' = inflight + 1
         /\ issued' = issued + 1
         /\ UNCHANGED <<isConnected, datasetConnected, geminiConnected, lastHealthCheckRef,
                        lastGoodRef, consecutiveFailuresRef, downStreak, pageIsConnected>>

\* lines 109-114: the effect runs once, checks and starts the interval
Mount ==
    /\ ~mounted
    /\ mounted' = TRUE
    /\ nextPoll' = now + POLL_INTERVAL
    /\ lastEvent' = "mount"
    /\ checkConnection(FALSE)
    /\ UNCHANGED <<outsideConn, now>>

\* line 112: the interval fires
Poll ==
    /\ mounted
    /\ now >= nextPoll
    /\ nextPoll' = nextPoll + POLL_INTERVAL
    /\ lastEvent' = "poll"
    /\ checkConnection(FALSE)
    /\ UNCHANGED <<outsideConn, now, mounted>>

\* lines 116-118; the button is disabled while isChecking
handleManualRefresh ==
    /\ mounted
    /\ ~isChecking
    /\ lastEvent' = "refresh"
    /\ checkConnection(TRUE)
    /\ UNCHANGED <<outsideConn, now, mounted, nextPoll>>

\* lines 48-56 and 64-66: healthCheck() resolves (it never rejects)
ProbeCompletes(data) ==
    /\ inflight > 0
    /\ inflight' = inflight - 1
    /\ lastHealthCheckRef' = Recorded(data)
    /\ updateConnectionState(data)
    /\ isChecking' = FALSE
    /\ downStreak' = IF AnyUp(data) THEN 0 ELSE downStreak + 1
    /\ lastEvent' = "complete"
    /\ UNCHANGED <<outsideConn, now, mounted, nextPoll, issued>>

\* time passes
ConnTick ==
    /\ mounted
    /\ now + ClockStep <= MaxConnTime
    /\ now' = now + ClockStep
    /\ lastEvent' = "tick"
    /\ UNCHANGED <<isConnected, isChecking, datasetConnected, geminiConnected,
                   lastHealthCheckRef, lastGoodRef, consecutiveFailuresRef,
                   mounted, nextPoll, inflight, issued, downStreak, pageIsConnected>>
    /\ UNCHANGED outsideConn

NextConn ==
    \/ Mount
    \/ Poll
    \/ handleManualRefresh
    \/ \E data \in ConnHealthData : ProbeCompletes(data)
    \/ ConnTick

SpecConn == Init /\ [][NextConn]_vars

\* ------------------------------------------ the chat page (app/page.tsx)
outsidePage == <<coreVars, connVars, now, speechVars, ttsVars, voiceVars>>

RECURSIVE TrimStart(_)
TrimStart(chars) ==
    IF chars # << >> /\ Head(chars) = " " THEN TrimStart(Tail(chars)) ELSE chars

RECURSIVE TrimEnd(_)
TrimEnd(chars) ==
    IF chars # << >> /\ chars[Len(chars)] = " "
    THEN TrimEnd(SubSeq(chars, 1, Len(chars) - 1)) ELSE chars

\* String.prototype.trim
Trim(chars) == TrimEnd(TrimStart(chars))

\* what the user can have typed into the input
PageInputs == { << >>, <<" ", " ">>, <<" ", "h", "i", " ">>, MsgRefund }

\* lines 282-291
Message(content, sender, source) == [content |-> content, sender |-> sender, source |-> source]

\* lines 61-70
WelcomeMessage == Message(Str("Hello! I'm your AI assistant"), "bot", Str("dataset"))

\* lines 240-245
PageRequest(userMessage) ==
    Obj([message |-> Text(userMessage), session_id |-> Str("session-1"),
         use_dataset |-> JTrue, model_type |-> Str("enhanced")])

\* how hybridChatService.sendMessage can settle for the page
PageRouterOutcomes ==
    { Resolved(DatasetResult(Obj([status |-> Str("success"),
                                  data |-> Obj([response |-> Str("dataset answer")])]),
                             Str("session-1"))),
      Resolved(GuidanceResult(Str("session-1"))),
      Resolved(ErrorResult("Cannot read properties of null (reading 'status')")),
      Resolved(Obj([status |-> Str("error")])),
      Rejected("Network down") }

SorryMessage(errorMessage) == Str("Sorry, I encountered an error: " \o errorMessage)

\* lines 58-74: the effect that shows the greeting
PageMount ==
    /\ pageEvent = "none"
    /\ messages' = << WelcomeMessage >>
    /\ pageEvent' = "mount"
    /\ UNCHANGED <<inputMessage, isLoading, pageError, routerCalls, pageIsConnected>>
    /\ UNCHANGED outsidePage

\* the input's onChange
Type(text) ==
    /\ pageEvent # "none"
    /\ inputMessage' = text
    /\ pageEvent' = "type"
    /\ UNCHANGED <<messages, isLoading, pageError, routerCalls, pageIsConnected>>
    /\ UNCHANGED outsidePage

\* lines 119 and 302-309: the page learns whether a backend is up
SetConnected(connected) ==
    /\ pageEvent # "none"
    /\ handleConnectionChange(connected)
    /\ pageError' = IF connected THEN JNull ELSE Str("Chat services connection lost")
    /\ pageEvent' = "connection"
    /\ UNCHANGED <<messages, inputMessage, isLoading, routerCalls>>
    /\ UNCHANGED outsidePage

\* lines 224-247: sendMessage up to its await
sendMessage_ignoresIsLoading ==
    /\ pageEvent # "none"
    /\ pageEvent' = "sendMessage"
    /\ IF Trim(inputMessage) = << >>
       THEN UNCHANGED <<messages, inputMessage, isLoading, pageError, routerCalls>>
       ELSE IF ~pageIsConnected
       THEN /\ pageError' = Str("Cannot send message: No chat services available")
            /\ UNCHANGED <<messages, inputMessage, isLoading, routerCalls>>
       ELSE /\ Len(routerCalls) < MaxSends
            /\ inputMessage' = << >>
            /\ isLoading' = TRUE
            /\ pageError' = JNull
            /\ messages' = Append(messages, Message(Text(Trim(inputMessage)), "user", JUndefined))
            /\ routerCalls' = Append(routerCalls, [request |-> PageRequest(Trim(inputMessage)),
                                                   outcome |-> Pending])
    /\ UNCHANGED pageIsConnected
    /\ UNCHANGED outsidePage

sendMessage ==
    /\ pageEvent # "none"
    /\ pageEvent' = "sendMessage"
    /\ IF Trim(inputMessage) = << >> \/ isLoading
       THEN UNCHANGED <<messages, inputMessage, isLoading, pageError, routerCalls>>
       ELSE IF ~pageIsConnected
       THEN /\ pageError' = Str("Cannot send message: No chat services available")
            /\ UNCHANGED <<messages, inputMessage, isLoading, routerCalls>>
       ELSE /\ Len(routerCalls) < MaxSends
            /\ inputMessage' = << >>
            /\ isLoading' = TRUE
            /\ pageError' = JNull
            /\ messages' = Append(messages, Message(Text(Trim(inputMessage)), "user", JUndefined))
            /\ routerCalls' = Append(routerCalls, [request |-> PageRequest(Trim(inputMessage)),
                                                   outcome |-> Pending])
    /\ UNCHANGED pageIsConnected
    /\ UNCHANGED outsidePage

\* lines 247-271: the router call settles
RouterSettles(outcome) ==
    /\ isLoading
    /\ routerCalls # << >>
    /\ routerCalls[Len(routerCalls)].outcome = Pending
    /\ routerCalls' = [routerCalls EXCEPT ![Len(routerCalls)].outcome = outcome]
    /\ pageEvent' = "response"
    /\ IF /\ outcome.kind = "resolved"
          /\ Get(outcome.value, "status") = Str("success")
          /\ Truthy(Get(outcome.value, "data"))
       THEN LET data == Get(outcome.value, "data")
            IN  /\ messages' = Append(messages, Message(Get(data, "response"), "bot",
                                                        Get(data, "source")))
                /\ UNCHANGED pageError
       ELSE LET errorMessage ==
                    IF outcome.kind = "rejected" THEN outcome.error
                    ELSE Or(Get(outcome.value, "message"), Str("Failed to get response")).s
            IN  /\ pageError' = Str(errorMessage)
                /\ messages' = Append(messages, Message(SorryMessage(errorMessage), "bot",
                                                        JUndefined))
    /\ isLoading' = FALSE
    /\ UNCHANGED <<inputMessage, pageIsConnected>>
    /\ UNCHANGED outsidePage

NextPage ==
    \/ PageMount
    \/ \E text \in PageInputs : Type(text)
    \/ \E connected \in BOOLEAN : SetConnected(connected)
    \/ sendMessage
    \/ \E outcome \in PageRouterOutcomes : RouterSettles(outcome)

SpecPage == Init /\ [][NextPage]_vars

\* ------------------------- SpeechRecognitionService (src/unnamed/part_001)
outsideSpeech == <<coreVars, connVars, pageIsConnected, pageVars, now, ttsVars, voiceVars>>

\* the parties that call startListening, each with callbacks of its own
Callers == {"A", "B"}

\* event.error values of the recognizer's error event
RecognitionErrors == {"no-speech", "not-allowed"}

NoReturn == [kind |-> "none"]
\* the value startListening returned to caller, the caller whose onError it
\* called ("nobody" when it called none) and the message it gave
Returned(caller, value, reportedTo, message) ==
    [kind |-> "returned", caller |-> caller, value |-> value, reportedTo |-> reportedTo,
     message |-> message]

\* the language argument of startListening; "undefined" when left out
Languages == {"undefined", "en", "hi", "te", "ta"}

\* lines 95-113
mapLangToBCP47(lang) ==
    CASE lang = "hi" -> "hi-IN"
      [] lang = "te" -> "te-IN"
      [] lang = "ta" -> "ta-IN"
      [] OTHER -> "en-IN"

NoEvent == [kind |-> "none"]
Delivered(event, caller) == [kind |-> "delivered", event |-> event, to |-> caller]

\* lines 26-93: the constructor; the browser has the recognizer or not
initializeSpeechRecognition(supported) ==
    /\ recognition = "unbuilt"
    /\ recognition' = IF supported THEN "object" ELSE "null"
    /\ isSupported' = supported
    /\ recognitionLang' = IF supported THEN "en-IN" ELSE recognitionLang
    /\ listenReturn' = NoReturn
    /\ UNCHANGED <<isListening, registered, recognizer, startedFor, delivered>>
    /\ UNCHANGED outsideSpeech

\* lines 115-146; recognition.start() throws while the recognizer is not idle
startListening(caller, language) ==
    /\ recognition # "unbuilt"
    /\ IF ~isSupported \/ recognition = "null"
       THEN /\ listenReturn' = Returned(caller, FALSE, caller,
                                        "Speech recognition is not supported in this browser")
            /\ UNCHANGED <<registered, recognizer, recognitionLang, startedFor>>
       ELSE IF isListening
       THEN /\ listenReturn' = Returned(caller, FALSE, caller,
                                        "Speech recognition is already active")
            /\ UNCHANGED <<registered, recognizer, recognitionLang, startedFor>>
       ELSE /\ registered' = caller
            /\ recognitionLang' = mapLangToBCP47(language)
            /\ IF recognizer = "idle"
               THEN /\ recognizer' = "starting"
                    /\ startedFor' = caller
                    /\ listenReturn' = Returned(caller, TRUE, "nobody", "")
               ELSE /\ listenReturn' = Returned(caller, FALSE, caller,
                                                "Failed to start speech recognition")
                    /\ UNCHANGED <<recognizer, startedFor>>
    /\ delivered' = NoEvent
    /\ UNCHANGED <<recognition, isSupported, isListening>>
    /\ UNCHANGED outsideSpeech

\* lines 46-49: the recognizer's start event
RecognizerStarts ==
    /\ recognizer = "starting"
    /\ recognizer' = "running"
    /\ isListening' = TRUE
    /\ delivered' = Delivered("start", registered)
    /\ listenReturn' = NoReturn
    /\ UNCHANGED <<recognition, recognitionLang, isSupported, registered, startedFor>>
    /\ UNCHANGED outsideSpeech

\* lines 51-62: a result event
RecognizerResult ==
    /\ recognizer = "running"
    /\ delivered' = Delivered("result", registered)
    /\ listenReturn' = NoReturn
    /\ UNCHANGED <<recognition, recognitionLang, isSupported, isListening, registered, recognizer, startedFor>>
    /\ UNCHANGED outsideSpeech

\* lines 64-86: an error event; the end event follows it
RecognizerError(error) ==
    /\ recognizer \in {"starting", "running"}
    /\ recognizer' = "ending"
    /\ isListening' = FALSE
    /\ delivered' = Delivered(error, registered)
    /\ listenReturn' = NoReturn
    /\ UNCHANGED <<recognition, recognitionLang, isSupported, registered, startedFor>>
    /\ UNCHANGED outsideSpeech

\* lines 148-152
stopListening ==
    /\ recognition = "object"
    /\ isListening
    /\ recognizer = "running"
    /\ recognizer' = "ending"
    /\ listenReturn' = NoReturn
    /\ delivered' = NoEvent
    /\ UNCHANGED <<recognition, recognitionLang, isSupported, isListening, registered, startedFor>>
    /\ UNCHANGED outsideSpeech

\* lines 88-91: the end event (after stop, after an error, or after the
\* final result of a non-continuous recognition)
RecognizerEnds ==
    /\ recognizer \in {"running", "ending"}
    /\ recognizer' = "idle"
    /\ isListening' = FALSE
    /\ delivered' = Delivered("end", registered)
    /\ startedFor' = "nobody"
    /\ listenReturn' = NoReturn
    /\ UNCHANGED <<recognition, recognitionLang, isSupported, registered>>
    /\ UNCHANGED outsideSpeech

NextSpeech ==
    \/ \E supported \in BOOLEAN : initializeSpeechRecognition(supported)
    \/ \E caller \in Callers, language \in Languages : startListening(caller, language)
    \/ RecognizerStarts
    \/ RecognizerResult
    \/ \E error \in RecognitionErrors : RecognizerError(error)
    \/ stopListening
    \/ RecognizerEnds

SpecSpeech == Init /\ [][NextSpeech]_vars

\* ------------------------------ TextToSpeechService (src/unnamed/part_000)
outsideTts == <<coreVars, connVars, pageIsConnected, pageVars, now, speechVars, voiceVars>>

\* the utterances the browser still has to speak or is speaking
Live == {u \in DOMAIN utterances : utterances[u] \in {"queued", "speaking"}}

\* speechSynthesis.cancel(): every utterance of the queue is dropped; the
\* browser tells the utterance later, by an end or error event to the one it
\* was speaking (interrupted) and by an error event to one still waiting
Dropped == {"interrupted", "cancelled"}
cancel(us) ==
    [u \in DOMAIN us |-> CASE us[u] = "speaking" -> "interrupted"
                           [] us[u] = "queued" -> "cancelled"
                           [] OTHER -> us[u]]

\* line 152: cancel is asked for only when the service believes it speaks
stopCancels == synthesis = "object" /\ (isSpeaking \/ currentUtterance # 0)

\* lines 23-33: the constructor; the browser has speechSynthesis or not
initializeTextToSpeech(supported) ==
    /\ synthesis = "unbuilt"
    /\ synthesis' = IF supported THEN "object" ELSE "null"
    /\ ttsIsSupported' = supported
    /\ ttsEvent' = [kind |-> "init"]
    /\ UNCHANGED <<currentUtterance, isSpeaking, utterances>>
    /\ UNCHANGED outsideTts

\* lines 94-149; throws: something inside the try block threw
speak(throws) ==
    /\ synthesis # "unbuilt"
    /\ Len(utterances) < MaxUtterances
    /\ IF ~ttsIsSupported \/ synthesis = "null"
       THEN /\ ttsEvent' = [kind |-> "speak", returned |-> FALSE]
            /\ UNCHANGED <<currentUtterance, isSpeaking, utterances>>
       ELSE LET stopped == IF stopCancels THEN cancel(utterances) ELSE utterances
            IN  /\ isSpeaking' = FALSE
                /\ IF throws
                   THEN /\ currentUtterance' = 0
                        /\ utterances' = stopped
                        /\ ttsEvent' = [kind |-> "speak", returned |-> FALSE]
                   ELSE /\ currentUtterance' = Len(utterances) + 1
                        /\ utterances' = Append(stopped, "queued")
                        /\ ttsEvent' = [kind |-> "speak", returned |-> TRUE]
    /\ UNCHANGED <<synthesis, ttsIsSupported>>
    /\ UNCHANGED outsideTts

\* lines 151-157
stop ==
    /\ synthesis # "unbuilt"
    /\ utterances' = IF stopCancels THEN cancel(utterances) ELSE utterances
    /\ isSpeaking' = FALSE
    /\ currentUtterance' = 0
    /\ ttsEvent' = [kind |-> "stop"]
    /\ UNCHANGED <<synthesis, ttsIsSupported>>
    /\ UNCHANGED outsideTts

\* lines 123-126: the start event of the utterance at the head of the queue
UtteranceStarts(u) ==
    /\ u \in DOMAIN utterances
    /\ utterances[u] = "queued"
    /\ \A v \in Live : u <= v
    /\ utterances' = [utterances EXCEPT ![u] = "speaking"]
    /\ isSpeaking' = TRUE
    /\ ttsEvent' = [kind |-> "start", utterance |-> u]
    /\ UNCHANGED <<synthesis, ttsIsSupported, currentUtterance>>
    /\ UNCHANGED outsideTts

\* lines 127-131: the end event, of an utterance spoken to its end or of one
\* that was cancelled while it was speaking
UtteranceEnds(u) ==
    /\ u \in DOMAIN utterances
    /\ utterances[u] \in {"speaking", "interrupted"}
    /\ utterances' = [utterances EXCEPT ![u] = "over"]
    /\ isSpeaking' = FALSE
    /\ currentUtterance' = 0
    /\ ttsEvent' = [kind |-> "end", utterance |-> u, late |-> utterances[u] \in Dropped]
    /\ UNCHANGED <<synthesis, ttsIsSupported>>
    /\ UNCHANGED outsideTts

\* lines 132-136: the error event, of an utterance that failed or of one that
\* was cancelled (event.error interrupted or canceled)
UtteranceErrors(u) ==
    /\ u \in DOMAIN utterances
    /\ utterances[u] \in {"queued", "speaking"} \cup Dropped
    /\ utterances' = [utterances EXCEPT ![u] = "over"]
    /\ isSpeaking' = FALSE
    /\ currentUtterance' = 0
    /\ ttsEvent' = [kind |-> "error", utterance |-> u, late |-> utterances[u] \in Dropped]
    /\ UNCHANGED <<synthesis, ttsIsSupported>>
    /\ UNCHANGED outsideTts

NextTts ==
    \/ \E supported \in BOOLEAN : initializeTextToSpeech(supported)
    \/ \E throws \in BOOLEAN : speak(throws)
    \/ stop
    \/ \E u \in 1..MaxUtterances : UtteranceStarts(u)
    \/ \E u \in 1..MaxUtterances : UtteranceEnds(u)
    \/ \E u \in 1..MaxUtterances : UtteranceErrors(u)

SpecTts == Init /\ [][NextTts]_vars

\* ------------------- TextToSpeechService.pickBestVoice (src/unnamed/part_000)
\* String.prototype.startsWith and endsWith
startsWith(chars, prefix) ==
    Len(prefix) <= Len(chars) /\ SubSeq(chars, 1, Len(prefix)) = prefix

endsWith(chars, suffix) ==
    Len(suffix) <= Len(chars) /\
    SubSeq(chars, Len(chars) - Len(suffix) + 1, Len(chars)) = suffix

\* chars.split("-")[0]
RECURSIVE splitFirst(_)
splitFirst(chars) ==
    IF chars = << >> \/ Head(chars) = "-" THEN << >>
    ELSE << Head(chars) >> \o splitFirst(Tail(chars))

\* the tags mapLangToBCP47 gives speak() for Telugu and Hindi (lines 42-47)
TeIN == << "t", "e", "-", "I", "N" >>
HiIN == << "h", "i", "-", "I", "N" >>
Targets == { TeIN, HiIN }

\* SpeechSynthesisVoice.lang: Telugu and Hindi of India, Telugu elsewhere,
\* Tetum (primary subtag tet) of India and of Timor-Leste, English, or absent
VoiceLangs ==
    { Text(TeIN), Text(HiIN),
      Text(<< "t", "e", "-", "U", "S" >>),
      Text(<< "t", "e", "t", "-", "I", "N" >>),
      Text(<< "t", "e", "t", "-", "T", "L" >>),
      Text(<< "e", "n", "-", "U", "S" >>),
      JUndefined }

\* SpeechSynthesisVoice, by the three properties pickBestVoice reads
Voices == [lang : VoiceLangs, localService : BOOLEAN, default : BOOLEAN]

\* speechSynthesis.getVoices()
VoiceLists == UNION { [1..n -> Voices] : n \in 0..MaxVoices }

\* voice.lang?.toLowerCase(): undefined when lang is undefined
langLower(voice) ==
    IF voice.lang.t = "string" THEN Text(toLowerCase(voice.lang.chars)) ELSE JUndefined

\* Array.prototype.find: the position of the first voice that passes, 0
\* (undefined) when none does
find(list, Passes(_)) ==
    LET hits == {i \in 1..Len(list) : Passes(list[i])}
    IN  IF hits = {} THEN 0 ELSE CHOOSE i \in hits : \A j \in hits : i <= j

\* a || b on find results: a voice is truthy, undefined is not
OrVoice(a, b) == IF a # 0 THEN a ELSE b

\* lines 59-92
pickBestVoice(list, tag) ==
    LET lowerTag == toLowerCase(tag)
        base == splitFirst(lowerTag)
        in == << "-", "i", "n" >>
        exact(voice) == langLower(voice) = Text(lowerTag)
        startsBase(voice) ==
            langLower(voice).t = "string" /\ startsWith(langLower(voice).chars, base)
        endsIn(voice) ==
            langLower(voice).t = "string" /\ endsWith(langLower(voice).chars, in)
        exactLocal(voice) == exact(voice) /\ voice.localService
        baseInLocal(voice) == startsBase(voice) /\ endsIn(voice) /\ voice.localService
        baseIn(voice) == startsBase(voice) /\ endsIn(voice)
        baseLocal(voice) == startsBase(voice) /\ voice.localService
        inLocal(voice) == endsIn(voice) /\ voice.localService
        isDefault(voice) == voice.default
        v1 == OrVoice(find(list, exactLocal), find(list, exact))
        v2 == OrVoice(find(list, baseInLocal), find(list, baseIn))
        v3 == OrVoice(find(list, baseLocal), find(list, startsBase))
        v4 == OrVoice(find(list, inLocal), find(list, endsIn))
    IN  IF v1 # 0 THEN v1
        ELSE IF v2 # 0 THEN v2
        ELSE IF v3 # 0 THEN v3
        ELSE IF v4 # 0 THEN v4
        ELSE OrVoice(find(list, isDefault), IF list = << >> THEN 0 ELSE 1)

InitPick ==
    /\ pc = "idle"
    /\ request = JUndefined
    /\ sessionId = JUndefined
    /\ calls = << >>
    /\ result = NoResult
    /\ hpc = "idle"
    /\ datasetProbe = NotStarted
    /\ geminiProbe = NotStarted
    /\ healthResult = NoResult
    /\ now = 0
    /\ startTime = 0
    /\ cmsg = << >>
    /\ cverdict = [kind |-> "none"]
    /\ responseArrived = FALSE
    /\ relayPc = "idle"
    /\ relayReq = [kind |-> "none"]
    /\ apiKey = JNull
    /\ started = 0
    /\ relaySid = JUndefined
    /\ modelCalls = << >>
    /\ reply = [kind |-> "none"]
    /\ InitComponents
    /\ voices \in VoiceLists
    /\ targetTag \in Targets
    /\ picked = [kind |-> "none"]

PickBestVoice ==
    /\ picked.kind = "none"
    /\ picked' = [kind |-> "picked", index |-> pickBestVoice(voices, targetTag)]
    /\ UNCHANGED <<voices, targetTag>>
    /\ UNCHANGED <<coreVars, connVars, pageIsConnected, pageVars, now, speechVars, ttsVars>>

NextPick == PickBestVoice

SpecPick == InitPick /\ [][NextPick]_vars

\* ------------------------------------------- isCustomerSupportQuery alone
\* the characters test messages are typed from: the letters of "bug" in
\* both cases and a letter of no keyword
ClassifyAlphabet == {"b", "u", "g", "B", "U", "x"}

RECURSIVE StringsOver(_, _)
StringsOver(alphabet, n) ==
    IF n = 0 THEN { << >> }
    ELSE LET shorter == StringsOver(alphabet, n - 1)
         IN  shorter \cup { Append(w, c) : w \in shorter, c \in alphabet }

ClassifyInputs ==
    { m.chars : m \in TextMessages } \cup StringsOver(ClassifyAlphabet, MaxMessageLen)

InitClassify ==
    /\ pc = "idle"
    /\ request = JUndefined
    /\ sessionId = JUndefined
    /\ calls = << >>
    /\ result = NoResult
    /\ hpc = "idle"
    /\ datasetProbe = NotStarted
    /\ geminiProbe = NotStarted
    /\ healthResult = NoResult
    /\ now = 0
    /\ startTime = 0
    /\ cmsg \in ClassifyInputs
    /\ cverdict = [kind |-> "none"]
    /\ responseArrived = FALSE
    /\ relayPc = "idle"
    /\ relayReq = [kind |-> "none"]
    /\ apiKey = JNull
    /\ started = 0
    /\ relaySid = JUndefined
    /\ modelCalls = << >>
    /\ reply = [kind |-> "none"]
    /\ InitUi

\* this.isCustomerSupportQuery(message) on a string (lines 125-150)
Classify ==
    /\ cverdict.kind = "none"
    /\ cverdict' = [kind |-> "classified", message |-> cmsg,
                    support |-> isCustomerSupportQuery(Text(cmsg))]
    /\ UNCHANGED <<routerVars, healthVars, now, cmsg, responseArrived, relayVars, uiVars>>

NextClassify == Classify

SpecClassify == InitClassify /\ [][NextClassify]_vars

\* healthCheck calls, one after the other, against the same backends
NextHealth ==
    \/ HealthCheck
    \/ \E fo \in DatasetHealthOutcomes : DatasetProbeSettles(fo)
    \/ \E fo \in GeminiHealthOutcomes : GeminiProbeSettles(fo)
    \/ HealthCheckReturns

SpecHealth == Init /\ [][NextHealth]_vars

\* =================================================================== claims
\* Vocabulary of the claims, stated on the requests and on the raw outcomes
\* of the backend calls, not through the operators of the model.

\* the test messages that contain a support keyword in some letter case
\* ("refund", "HELP", "bug" inside "Debug"), and those that contain none
SupportMessages == {Text(MsgRefund), Text(MsgHelpUpper), Text(MsgDebug)}
GeneralMessages == {Text(MsgJoke), Text(MsgEmpty)}

Typed == request \in TypedRequests
WellFormed == request \in WellFormedRequests
UseDataset == Get(request, "use_dataset") = JTrue
SupportQuery == Get(request, "message") \in SupportMessages

Started == pc # "idle"
Done == pc = "done"

IsHttpSuccess(fo) == fo.kind = "response" /\ fo.status \in 200..299 /\ fo.json

\* the dataset call answered 2xx with a JSON object
DatasetCallSucceeded(c) ==
    /\ c.backend = "dataset"
    /\ IsHttpSuccess(c.outcome)
    /\ c.outcome.value.t = "object"

\* the generative call answered with the relay's success envelope
GeminiCallSucceeded(c) ==
    /\ c.backend = "gemini"
    /\ c.outcome.kind = "response" /\ c.outcome.json
    /\ c.outcome.value.t = "object"
    /\ "status" \in DOMAIN c.outcome.value.f
    /\ c.outcome.value.f.status = Str("success")
    /\ "data" \in DOMAIN c.outcome.value.f
    /\ c.outcome.value.f.data.t = "object"

CallSettled(c) == c.outcome.kind # "pending"
CallSucceeded(c) == DatasetCallSucceeded(c) \/ GeminiCallSucceeded(c)
CallFailed(c) == CallSettled(c) /\ ~CallSucceeded(c)

\* the failures C4 names: the dataset client threw (timeout, connection,
\* HTTP status, unparsable body); the generative call failed in transport
\* or the relay answered with its in-band error
DatasetCallThrew(c) ==
    /\ c.backend = "dataset"
    /\ CallSettled(c)
    /\ ~IsHttpSuccess(c.outcome)

GeminiCallFailedInBandOrTransport(c) ==
    /\ c.backend = "gemini"
    /\ \/ c.outcome.kind = "reject"
       \/ c.outcome.kind = "response" /\ ~c.outcome.json
       \/ c.outcome.kind = "response" /\ c.outcome.json /\ c.outcome.value = GeminiInBandError

CallsTo(backend) == { i \in 1..Len(calls) : calls[i].backend = backend }

ResultIsSuccess ==
    /\ result.kind = "resolved"
    /\ Get(result.value, "status") = Str("success")

ResultIsError ==
    /\ result.kind = "resolved"
    /\ Get(result.value, "status") = Str("error")

ResultData == Get(result.value, "data")
ResultSource == Get(ResultData, "source")

\* C1: with use_dataset = true and a message containing a support keyword
\* (in any letter case), the first backend call issued is to the dataset
\* backend, and the generative backend is called only after that dataset
\* call has failed.
C1_DatasetFirstForSupport ==
    (Typed /\ UseDataset /\ SupportQuery /\ Started) =>
        /\ Len(calls) >= 1
        /\ calls[1].backend = "dataset"
        /\ \A i \in CallsTo("gemini") : i > 1 /\ CallFailed(calls[1])

C1_Witness ==
    /\ WellFormed /\ UseDataset
    /\ Get(request, "message") = Text(MsgHelpUpper)
    /\ Len(calls) = 2
    /\ calls[1].backend = "dataset" /\ CallFailed(calls[1])
    /\ calls[2].backend = "gemini"

\* C2: when the message contains no support keyword, or use_dataset is not
\* true, the first backend call issued is to the generative backend.
C2_GeminiFirstOtherwise ==
    (Typed /\ Started /\ (~SupportQuery \/ ~UseDataset)) =>
        /\ Len(calls) >= 1
        /\ calls[1].backend = "gemini"

C2_Witness ==
    /\ WellFormed /\ UseDataset
    /\ Get(request, "message") = Text(MsgJoke)
    /\ Done
    /\ calls[1].backend = "gemini"

\* C3: whenever the first-attempted backend fails, the other backend has
\* been attempted by the time sendMessage returns.
C3_OtherBackendTriedAfterFailure ==
    (WellFormed /\ Done /\ Len(calls) >= 1 /\ CallFailed(calls[1])) =>
        \E i \in 1..Len(calls) : calls[i].backend # calls[1].backend

\* C4: when every backend call of the invocation failed (the dataset client
\* threw, the generative call failed in transport or in-band), a request
\* with a text message (empty or not) and any use_dataset value gets status success, source gemini and the fixed guidance text.
C4_GuidanceWhenAllFail ==
    (/\ Typed /\ Done /\ Len(calls) >= 1
     /\ \A i \in 1..Len(calls) :
            DatasetCallThrew(calls[i]) \/ GeminiCallFailedInBandOrTransport(calls[i])) =>
        /\ ResultIsSuccess
        /\ ResultSource = Str("gemini")
        /\ Get(ResultData, "response") = Str(GuidanceText)

C4_Witness ==
    /\ WellFormed /\ Done /\ Len(calls) = 3
    /\ GeminiCallFailedInBandOrTransport(calls[1])
    /\ DatasetCallThrew(calls[2]) /\ calls[2].outcome = AbortError
    /\ GeminiCallFailedInBandOrTransport(calls[3])
    /\ ResultIsSuccess
    /\ Get(ResultData, "response") = Str(GuidanceText)

\* C5: healthCheck reports dataset_backend = true iff the dataset probe
\* completed successfully, gemini_api = true iff the generative probe did,
\* hybrid_mode = true iff both; it always returns, never throws.
DatasetProbeSucceeded ==
    /\ datasetProbe.kind = "settled"
    /\ IsHttpSuccess(datasetProbe.outcome)

GeminiProbeSucceeded ==
    /\ geminiProbe.kind = "settled"
    /\ geminiProbe.outcome.kind = "response" /\ geminiProbe.outcome.json
    /\ geminiProbe.outcome.value.t = "object"
    /\ "status" \in DOMAIN geminiProbe.outcome.value.f
    /\ geminiProbe.outcome.value.f.status = Str("success")

HealthData == Get(healthResult.value, "data")

C5_HealthFlagsIndependent ==
    /\ healthResult.kind # "rejected"
    /\ hpc = "done" =>
        /\ healthResult.kind = "resolved"
        /\ Get(HealthData, "dataset_backend") = JBool(DatasetProbeSucceeded)
        /\ Get(HealthData, "gemini_api") = JBool(GeminiProbeSucceeded)
        /\ Get(HealthData, "hybrid_mode") = JBool(DatasetProbeSucceeded /\ GeminiProbeSucceeded)

C5_Witness ==
    /\ hpc = "done"
    /\ datasetProbe.promise.status = "rejected"
    /\ ~GeminiProbeSucceeded
    /\ healthResult.kind = "resolved"
    /\ Get(HealthData, "dataset_backend") = JFalse
    /\ Get(HealthData, "gemini_api") = JFalse
    /\ Get(HealthData, "hybrid_mode") = JFalse

\* the body the dataset backend answered this invocation's dataset call with
DatasetPayload == calls[CHOOSE i \in CallsTo("dataset") : TRUE].outcome.value

\* C6: a result with source = dataset carries the confidence value the
\* dataset backend returned whenever it supplied one; a result with
\* source = gemini (the guidance fallback included) has no confidence field.
C6_ConfidenceCarriedThrough ==
    ResultIsSuccess =>
        /\ ResultSource = Str("dataset") =>
              /\ CallsTo("dataset") # {}
              /\ HasField(DatasetPayload, "confidence") =>
                    Get(ResultData, "confidence") = Get(DatasetPayload, "confidence")
        /\ ResultSource = Str("gemini") => ~HasField(ResultData, "confidence")

C6_Witness ==
    /\ ResultIsSuccess
    /\ ResultSource = Str("dataset")
    /\ HasField(DatasetPayload, "confidence")
    /\ Get(ResultData, "confidence") = Num(0)

\* a confidence value, as opposed to a property holding undefined
HasConfidenceValue(v) == Get(v, "confidence").t # "undefined"

\* C7 as stated: in every successful result a confidence value is present
\* if and only if source = dataset.
C7_ConfidenceIffDataset ==
    (WellFormed /\ ResultIsSuccess) =>
        /\ ResultSource \in {Str("dataset"), Str("gemini")}
        /\ HasConfidenceValue(ResultData) <=> ResultSource = Str("dataset")

\* C7 as amended: every successful result has exactly one source; a
\* confidence value is present only if source = dataset, and a dataset
\* result has one exactly when the dataset backend returned one.
C7_ConfidenceOnlyIfDataset ==
    ResultIsSuccess =>
        /\ ResultSource \in {Str("dataset"), Str("gemini")}
        /\ HasConfidenceValue(ResultData) => ResultSource = Str("dataset")
        /\ ResultSource = Str("dataset") =>
              (HasConfidenceValue(ResultData) <=> HasConfidenceValue(DatasetPayload))

C7_Witness ==
    /\ WellFormed /\ ResultIsSuccess
    /\ ResultSource = Str("dataset")
    /\ Get(ResultData, "response") = Str("dataset answer")
    /\ ~HasConfidenceValue(DatasetPayload)
    /\ ~HasConfidenceValue(ResultData)

\* C8 as stated: never more than two backend calls in one invocation, and
\* at most one of them to the dataset backend.
C8_AtMostTwoCalls ==
    WellFormed =>
        /\ Len(calls) <= 2
        /\ Cardinality(CallsTo("dataset")) <= 1

\* C8 as amended: never more than three backend calls in one invocation:
\* at most one to the dataset backend and at most two to the generative one.
C8_AtMostThreeCalls ==
    /\ Len(calls) <= 3
    /\ Cardinality(CallsTo("dataset")) <= 1
    /\ Cardinality(CallsTo("gemini")) <= 2

C8_Witness ==
    /\ WellFormed /\ Done
    /\ Len(calls) = 3
    /\ calls[1].backend = "gemini"
    /\ calls[2].backend = "dataset"
    /\ calls[3].backend = "gemini"

\* C9: for a well-formed request, whatever the backends do, sendMessage
\* resolves (does not throw) and the result has status success.
C9_AlwaysSuccessForWellFormed ==
    (WellFormed /\ Done) => ResultIsSuccess

\* C10: for a malformed request sendMessage resolves with status error (it
\* neither throws nor returns a success), and no backend is called twice.
C10_ErrorForMalformed ==
    (request \in MalformedRequests /\ Done) =>
        /\ ResultIsError
        /\ Cardinality(CallsTo("dataset")) <= 1
        /\ Cardinality(CallsTo("gemini")) <= 1


\* C11: the response_time of every successful result is non-negative and is
\* the time elapsed between the start of the call and the moment the result
\* is built, in seconds, whatever response_time the backend's payload holds.
\* (startTime is the clock at the step that leaves idle; the clock does not
\* run once the call is done, so now is the moment the result was built.)
C11_ResponseTimeIsElapsed ==
    /\ [](ResultIsSuccess =>
            /\ now - startTime >= 0
            /\ Get(ResultData, "response_time") = DividedBy1000(now - startTime))
    /\ [][(pc = "idle" /\ pc' # "idle") => startTime' = now]_vars

C11_Witness ==
    /\ ResultIsSuccess
    /\ ResultSource = Str("dataset")
    /\ Get(DatasetPayload, "response_time") = DividedBy1000(1)
    /\ startTime = 0 /\ now = 2
    /\ Get(ResultData, "response_time") = DividedBy1000(2)

\* the session id this call has to use: the request's when it is a
\* non-empty string, otherwise one of the tokens Math.random() can give
ExpectedSessionIds ==
    IF Get(request, "session_id").t = "string" /\ Get(request, "session_id") # Str("")
    THEN {Get(request, "session_id")}
    ELSE RandomTokens

\* C12: the session_id of every successful result is the request's
\* session_id when one (a non-empty string) was supplied and otherwise a
\* token generated at the start of the call; every backend call of the
\* invocation carries that same value, and a session_id returned by a
\* backend is ignored.
C12_SessionIdEchoedOrGenerated ==
    (request.t = "object" /\ Started) =>
        /\ sessionId \in ExpectedSessionIds
        /\ \A i \in 1..Len(calls) : Get(calls[i].body, "session_id") = sessionId
        /\ ResultIsSuccess => Get(ResultData, "session_id") = sessionId

C12_Witness ==
    /\ ResultIsSuccess
    /\ ResultSource = Str("dataset")
    /\ Get(request, "session_id") = Str("")
    /\ Get(DatasetPayload, "session_id") = Str("dataset-sid")
    /\ Get(ResultData, "session_id") \in RandomTokens
    /\ Len(calls) = 2


\* the support terms as the specification lists them
ListedKeywords ==
    { <<"h","e","l","p">>, <<"s","u","p","p","o","r","t">>, <<"p","r","o","b","l","e","m">>,
      <<"i","s","s","u","e">>, <<"e","r","r","o","r">>, <<"b","u","g">>,
      <<"c","o","m","p","l","a","i","n","t">>, <<"r","e","f","u","n","d">>,
      <<"r","e","t","u","r","n">>, <<"c","a","n","c","e","l">>,
      <<"b","i","l","l","i","n","g">>, <<"p","a","y","m","e","n","t">>,
      <<"a","c","c","o","u","n","t">>, <<"l","o","g","i","n">>,
      <<"p","a","s","s","w","o","r","d">>, <<"r","e","s","e","t">>,
      <<"c","o","n","t","a","c","t">>, <<"p","h","o","n","e">>, <<"e","m","a","i","l">> }

SmallLetters == <<"a","b","c","d","e","f","g","h","i","j","k","l","m",
                  "n","o","p","q","r","s","t","u","v","w","x","y","z">>
CapitalLetters == <<"A","B","C","D","E","F","G","H","I","J","K","L","M",
                    "N","O","P","Q","R","S","T","U","V","W","X","Y","Z">>

\* the same character, or the same letter in the other case
SameIgnoringCase(c, d) ==
    \/ c = d
    \/ \E i \in 1..26 : {c, d} = {SmallLetters[i], CapitalLetters[i]}

\* keyword occurs in chars at some offset, letter case disregarded
OccursIgnoringCase(keyword, chars) ==
    \E off \in 0..(Len(chars) - Len(keyword)) :
        \A j \in 1..Len(keyword) : SameIgnoringCase(chars[off + j], keyword[j])

\* C13: isCustomerSupportQuery(message) is true iff one of the 19 listed
\* keywords occurs in the message as a substring, in any letter case and
\* also inside a longer word; it is false for the empty message.
C13_ClassifiedIffKeywordOccurs ==
    cverdict.kind = "classified" =>
        /\ Cardinality(ListedKeywords) = 19
        /\ cverdict.support <=>
              \E keyword \in ListedKeywords : OccursIgnoringCase(keyword, cverdict.message)
        /\ cverdict.message = << >> => ~cverdict.support

C13_Witness ==
    /\ cverdict.kind = "classified"
    /\ cverdict.message = <<"x", "B", "u", "g">>
    /\ cverdict.support


\* C15: healthCheck starts both probes before waiting on either and returns
\* only after both have settled; a probe that fails or rejects early neither
\* makes healthCheck return while the other probe is pending nor makes it
\* reject.
C15_HealthCheckWaitsForBothProbes ==
    /\ [][(hpc # "probing" /\ hpc' = "probing")
             => (datasetProbe' = Pending /\ geminiProbe' = Pending)]_vars
    /\ [][(hpc = "probing" /\ hpc' # "probing")
             => /\ datasetProbe.kind = "settled"
                /\ geminiProbe.kind = "settled"
                /\ healthResult'.kind = "resolved"]_vars
    /\ [](healthResult.kind # "rejected")

\* the dataset probe has rejected and healthCheck is still waiting for the
\* generative probe
C15_Witness ==
    /\ hpc = "probing"
    /\ datasetProbe.kind = "settled"
    /\ datasetProbe.promise.status = "rejected"
    /\ geminiProbe = Pending
    /\ healthResult = NoResult


\* C16: every sendMessage call eventually returns, the generative calls
\* being taken to complete and the dataset call completing by itself,
\* because its client aborts it when the 30 second timer fires.
C16_EventuallyReturns == Started ~> Done

\* what does hold: the call returns whenever the dataset request, too,
\* completes
ReturnsIfDatasetCallCompletes ==
    [](pc = "dataset" => <>(pc # "dataset")) => (Started ~> Done)


\* the relay's request, in the words of the claims
RelayDone == relayPc = "done"
RelayBody == IF relayReq.kind = "json" THEN relayReq.value ELSE JUndefined
RelayAction ==
    LET a == Get(RelayBody, "action")
    IN  IF a \in {Str("translate"), Str("health"), Str("status")} THEN a.s ELSE "send"
KeyMissing == apiKey = JNull
BodyUnusable == relayReq.kind = "unparsable" \/ RelayBody = JNull
IsMissing(v) == v \in {JUndefined, JNull, Str(""), Text(<< >>)}
RequiredFieldMissing ==
    CASE RelayAction = "send" -> IsMissing(Get(RelayBody, "message"))
      [] RelayAction = "translate" ->
            IsMissing(Get(RelayBody, "text")) \/ IsMissing(Get(RelayBody, "target_language"))
      [] OTHER -> FALSE
ModelThrew == \E i \in 1..Len(modelCalls) : modelCalls[i].outcome.kind = "throw"
RelayFailed == KeyMissing \/ BodyUnusable \/ RequiredFieldMissing \/ ModelThrew
IsText(v) == v.t = "string" /\ Truthy(v)

\* C17: every reply of the relay has HTTP status 200, whatever the action and
\* whatever failed (API key missing, body not parsable, required field
\* missing, exception from the model call); on such a failure the reply body
\* has status = "error" and a message.
C17_RelayAlwaysReplies200 ==
    /\ reply # NoReply => reply.httpStatus = 200
    /\ RelayDone =>
          /\ reply # NoReply
          /\ RelayFailed =>
                /\ Get(reply.body, "status") = Str("error")
                /\ IsText(Get(reply.body, "message"))

\* the model call of a send threw an exception without a message
C17_Witness ==
    /\ RelayDone
    /\ RelayAction = "send"
    /\ Len(modelCalls) = 1
    /\ modelCalls[1].outcome = ModelThrows(JUndefined)
    /\ reply.httpStatus = 200
    /\ Get(reply.body, "message") = Str("Gemini API Error")


\* the three failures of the dataset request, on the raw fetch outcome
IsTimeout(fo) == fo.kind = "reject" /\ fo.name = "AbortError"
IsConnectionFailure(fo) == fo.kind = "reject" /\ fo.name # "AbortError"
IsNon2xx(fo) == fo.kind = "response" /\ fo.status \notin 200..299

\* C18: on a timeout, a non-2xx status and a connection failure alike the
\* dataset client throws and returns nothing, so whatever it returns has
\* status = "success"; the router answers each of the three in the same way,
\* by calling the next backend (the generative one) with the same message.
C18_DatasetFailuresThrowAndFallThrough ==
    \A i \in CallsTo("dataset") :
        LET fo == calls[i].outcome IN
        CallSettled(calls[i]) =>
            /\ (IsTimeout(fo) \/ IsConnectionFailure(fo) \/ IsNon2xx(fo)) =>
                  /\ makeRequest(fo).kind = "throw"
                  /\ Len(calls) = i + 1
                  /\ calls[i + 1].backend = "gemini"
                  /\ Get(calls[i + 1].body, "message") = Get(request, "message")
                  /\ ResultIsSuccess => ResultSource # Str("dataset")
            /\ makeRequest(fo).kind = "return" =>
                  Get(makeRequest(fo).value, "status") = Str("success")

\* the dataset backend answered 429 and the generative backend was called next
C18_Witness ==
    /\ Done
    /\ Len(calls) = 2
    /\ calls[1].backend = "dataset"
    /\ calls[1].outcome = FetchNotJson(429)
    /\ calls[2].backend = "gemini"
    /\ ResultIsSuccess


\* the answer text in the body a backend call was answered with
AnswerText(c) ==
    IF c.backend = "dataset"
    THEN Get(c.outcome.value, "response")
    ELSE Get(Get(c.outcome.value, "data"), "response")

\* C19: as soon as a backend call of a sendMessage call has returned a
\* successful response with data, sendMessage returns a result built from
\* that backend's response (its source and its answer text) and no further
\* backend call is issued.
C19_FirstSuccessIsReturned ==
    \A i \in 1..Len(calls) :
        CallSucceeded(calls[i]) =>
            /\ i = Len(calls)
            /\ Done
            /\ ResultIsSuccess
            /\ ResultSource = Str(calls[i].backend)
            /\ Get(ResultData, "response") = AnswerText(calls[i])

\* the dataset backend answered 200 with an object that has no answer text,
\* after the first generative attempt had failed
C19_Witness ==
    /\ Done
    /\ Len(calls) = 2
    /\ CallFailed(calls[1])
    /\ calls[2].backend = "dataset"
    /\ calls[2].outcome = FetchJson(200, EmptyObj)
    /\ ResultSource = Str("dataset")


\* a generative attempt of this call has succeeded before any dataset call
EarlierGeminiSucceeded ==
    /\ Len(calls) >= 1
    /\ GeminiCallSucceeded(calls[1])

C21_SourceNamesProducer ==
    ResultIsSuccess =>
        /\ ResultSource \in {Str("dataset"), Str("gemini")}
        /\ ResultSource = Str("dataset") =>
              \E i \in CallsTo("dataset") :
                  /\ DatasetCallSucceeded(calls[i])
                  /\ Get(ResultData, "response") = AnswerText(calls[i])
        /\ ResultSource = Str("gemini") =>
              \/ Get(ResultData, "response") = Str(GuidanceText)
              \/ \E i \in CallsTo("gemini") :
                    /\ GeminiCallSucceeded(calls[i])
                    /\ Get(ResultData, "response") = AnswerText(calls[i])

\* the dataset backend answered 200 without data and the final generative
\* attempt produced the text
C21_Witness ==
    /\ Done
    /\ Len(calls) = 3
    /\ calls[2].backend = "dataset"
    /\ calls[2].outcome = FetchJson(200, JNull)
    /\ GeminiCallSucceeded(calls[3])
    /\ ResultSource = Str("gemini")
    /\ Get(ResultData, "response") = Str("gemini answer")


RelayStarted == relayPc # "idle"

\* the prompt kind each action asks the model with
PromptKindOf(action) == IF action \in {"health", "status"} THEN "ping" ELSE action

\* C22: the relay calls the model only when the API key is configured and
\* the fields the action requires are present (message for send, text and
\* target_language for translate, none for health and status); otherwise
\* it replies with status = "error" and the model is not called. A request
\* with no action or an unknown one is handled as a send.
C22_ModelCalledOnlyWhenComplete ==
    RelayStarted =>
        /\ Len(modelCalls) <= 1
        /\ (KeyMissing \/ RequiredFieldMissing) =>
              /\ modelCalls = << >>
              /\ RelayDone
              /\ Get(reply.body, "status") = Str("error")
        /\ ~(KeyMissing \/ RequiredFieldMissing) =>
              /\ Len(modelCalls) = 1
              /\ modelCalls[1].prompt.kind = PromptKindOf(RelayAction)
        /\ Get(RelayBody, "action") \notin {Str("translate"), Str("health"), Str("status")} =>
              \/ modelCalls = << >>
              \/ modelCalls[1].prompt.kind = "send"

\* an unknown action with a message: the model was asked as for a send
C22_Witness ==
    /\ RelayDone
    /\ Get(RelayBody, "action") = Str("summarize")
    /\ Get(RelayBody, "text") = Str("good morning")
    /\ Len(modelCalls) = 1
    /\ modelCalls[1].prompt.kind = "send"
    /\ modelCalls[1].outcome = ModelReturns(Str("model text"))
    /\ Get(reply.body, "status") = Str("success")


\* the component shows the service as Offline
ShownOffline == isConnected = JFalse /\ ~datasetConnected /\ ~geminiConnected

\* C23: the component marks the service Offline only after at least 2
\* health results in a row have reported both backends down; a single
\* all-down result never marks it Offline.
C23_OfflineOnlyAfterTwoFailures == ShownOffline => downStreak >= 2

\* a recorded probe result less than 60 seconds old
RecordIsFresh == lastHealthCheckRef # JNull /\ now - lastHealthCheckRef.timestamp < 60000

\* C24: checkConnection without forceRefresh (on mount and from the
\* interval) issues no probe when a result was recorded less than 60
\* seconds earlier and applies that result instead; the manual refresh
\* always issues a new probe, and the result of a probe replaces the
\* recorded one.
C24_CacheHonouredUnlessForced ==
    /\ [][lastEvent' \in {"mount", "poll"} =>
            IF RecordIsFresh
            THEN /\ issued' = issued /\ inflight' = inflight
                 /\ lastHealthCheckRef' = lastHealthCheckRef
                 /\ pageIsConnected' = AnyUp(lastHealthCheckRef.result)
            ELSE issued' = issued + 1 /\ inflight' = inflight + 1]_vars
    /\ [][lastEvent' = "refresh" => (issued' = issued + 1 /\ inflight' = inflight + 1)]_vars
    /\ [][inflight' < inflight =>
            /\ lastHealthCheckRef'.timestamp = now
            /\ pageIsConnected' = AnyUp(lastHealthCheckRef'.result)]_vars

\* the interval fired less than 60 seconds after a manual refresh had
\* recorded its result: no third probe was issued
C24_Witness ==
    /\ lastEvent = "poll"
    /\ RecordIsFresh
    /\ lastHealthCheckRef.timestamp > 0
    /\ inflight = 0
    /\ issued = 2

\* C25: the consecutive-failure counter never exceeds the number of
\* consecutive failed probes: applying a cached all-down result is not a
\* further failure.
C25_CounterCountsProbes == consecutiveFailuresRef <= downStreak

\* C26: once updateConnectionState has run, the flag handed to
\* onConnectionChange (the page's isConnected) equals the isConnected the
\* component has set for itself.
C26_PageAgreesWithComponent ==
    isConnected # JNull => isConnected = JBool(pageIsConnected)


\* a call of the page's sendMessage that the guard of line 225 stops
SendBlocked == isLoading \/ Trim(inputMessage) = << >>

\* whether the router's answer is one the page shows
IsAnswer(outcome) ==
    /\ outcome.kind = "resolved"
    /\ Get(outcome.value, "status") = Str("success")

\* the messages the page can show for a failed send
SorryMessages ==
    { Str("Sorry, I encountered an error: " \o e) :
        e \in {"Network down", "Failed to get response",
               "Cannot read properties of null (reading 'status')"} }

\* C27: the page's sendMessage does nothing while a send is in flight or
\* when the trimmed input is empty, and sends nothing to the router when the
\* page is not connected; an accepted send appends exactly one user message
\* and, when the router call settles, exactly one bot message (the router's
\* answer, or a "Sorry, I encountered an error" message when the router
\* returned status error or threw), after which isLoading is false again.
C27_OneUserOneBotPerSend ==
    /\ [][(pageEvent' = "sendMessage" /\ SendBlocked) =>
             UNCHANGED <<messages, inputMessage, isLoading, pageError, routerCalls>>]_vars
    /\ [][(pageEvent' = "sendMessage" /\ ~SendBlocked /\ ~pageIsConnected) =>
             UNCHANGED <<messages, isLoading, routerCalls>>]_vars
    /\ [][(pageEvent' = "sendMessage" /\ ~SendBlocked /\ pageIsConnected) =>
             /\ Len(messages') = Len(messages) + 1
             /\ messages'[Len(messages')].sender = "user"
             /\ messages'[Len(messages')].content = Text(Trim(inputMessage))
             /\ Len(routerCalls') = Len(routerCalls) + 1
             /\ isLoading']_vars
    /\ [][pageEvent' = "response" =>
             LET outcome == routerCalls'[Len(routerCalls')].outcome
                 bot == messages'[Len(messages')]
             IN  /\ Len(messages') = Len(messages) + 1
                 /\ SubSeq(messages', 1, Len(messages)) = messages
                 /\ bot.sender = "bot"
                 /\ IF IsAnswer(outcome)
                    THEN bot.content = Get(Get(outcome.value, "data"), "response")
                    ELSE bot.content \in SorryMessages
                 /\ ~isLoading']_vars
    /\ [](pageEvent # "none" =>
             /\ Len(messages) = 1 + 2 * Len(routerCalls) - (IF isLoading THEN 1 ELSE 0)
             /\ \A i \in 2..Len(messages) :
                   messages[i].sender = (IF i % 2 = 0 THEN "user" ELSE "bot"))

\* two sends have completed: the first was answered by the dataset backend,
\* the second failed
C27_Witness ==
    /\ ~isLoading
    /\ Len(messages) = 5
    /\ messages[3].source = Str("dataset")
    /\ messages[4].content = Text(<<"h", "i">>)
    /\ messages[5].content = Str("Sorry, I encountered an error: Failed to get response")


\* C28: whenever startListening returns false it has reported the failure
\* through the caller's onError and has left the registered callbacks as
\* they were, so that the events of a recognition under way still reach the
\* caller that started it; also for a second startListening made after
\* start() and before the recognizer's start event.
C28_FailedStartKeepsCallbacks ==
    /\ [][(listenReturn'.kind = "returned" /\ listenReturn'.value = FALSE) =>
             /\ listenReturn'.reportedTo = listenReturn'.caller
             /\ registered' = registered]_vars
    /\ [](delivered.kind = "delivered" /\ startedFor # "nobody" => delivered.to = startedFor)


\* C29: speak() cancels the current utterance before it starts a new one, so
\* at most one utterance is live, and isSpeaking/currentUtterance describe the
\* utterance spoken last: an end or error event that arrives late, for an
\* utterance a later speak() replaced or stop() cancelled, changes neither.
C29_LateEventsLeaveCurrent ==
    /\ [](Cardinality(Live) <= 1)
    /\ [](\A u \in Live : u = Len(utterances) /\ currentUtterance = u)
    /\ [][(ttsEvent'.kind \in {"end", "error"} /\ ttsEvent'.late) =>
             /\ isSpeaking' = isSpeaking
             /\ currentUtterance' = currentUtterance]_vars


\* the language of a voice: the primary subtag of its lang, lower-cased
PrimarySubtag(chars) == splitFirst(toLowerCase(chars))
HasLang(voice) == voice.lang.t = "string"
SameBase(voice, tag) ==
    HasLang(voice) /\ PrimarySubtag(voice.lang.chars) = PrimarySubtag(tag)
RegionIN(voice) ==
    HasLang(voice) /\ endsWith(toLowerCase(voice.lang.chars), << "-", "i", "n" >>)
EqualTag(voice, tag) ==
    HasLang(voice) /\ toLowerCase(voice.lang.chars) = toLowerCase(tag)

\* the positions of the voices of each tier, in the order of the tiers
Tier(n) ==
    {i \in 1..Len(voices) :
        CASE n = 1 -> EqualTag(voices[i], targetTag)
          [] n = 2 -> SameBase(voices[i], targetTag) /\ RegionIN(voices[i])
          [] n = 3 -> SameBase(voices[i], targetTag)
          [] n = 4 -> RegionIN(voices[i])}

First(positions) == CHOOSE i \in positions : \A j \in positions : i <= j

\* the first local-service voice of the tier, else its first voice
PreferLocal(positions) ==
    LET local == {i \in positions : voices[i].localService}
    IN  IF local # {} THEN First(local) ELSE First(positions)

TierChoice ==
    LET filled == {n \in 1..4 : Tier(n) # {}}
        defaults == {i \in 1..Len(voices) : voices[i].default}
    IN  IF filled # {} THEN PreferLocal(Tier(First(filled)))
        ELSE IF defaults # {} THEN First(defaults)
        ELSE IF voices # << >> THEN 1
        ELSE 0

\* C30: pickBestVoice returns a voice of the first tier that has one (the
\* target tag; the same base language with region IN; the same base
\* language; region IN; the default voice, else the first voice), a
\* local-service voice before a remote one in the first four tiers, and
\* undefined exactly when there is no voice.
C30_PickFollowsTiers ==
    picked.kind = "picked" =>
        /\ picked.index = TierChoice
        /\ picked.index = 0 <=> voices = << >>

\* every language offered has the target's primary subtag or one that does
\* not begin with it
NoLongerSubtag ==
    \A i \in 1..Len(voices) :
        HasLang(voices[i]) /\ startsWith(toLowerCase(voices[i].lang.chars), PrimarySubtag(targetTag))
            => SameBase(voices[i], targetTag)

\* the tiers are followed whenever no voice is of a language whose subtag
\* merely begins with the target's
PickFollowsTiersForExactSubtags ==
    picked.kind = "picked" /\ NoLongerSubtag => picked.index = TierChoice

=============================================================================
